---- MODULE Spec2Model ----
(***************************************************************************)
(* Verification model of the Ollama SDK streaming core:                    *)
(*   - GenericStreamParser (ollama-sdk/src/parser.rs): NDJSON line parser  *)
(*     driven by a chunked byte source;                                    *)
(*   - ToolRegistry (ollama-sdk/src/tools/registry.rs);                    *)
(*   - OllamaClient::chat_stream tool dispatch (src/client.rs);            *)
(*   - the conversation loop of examples/streaming_chat_tool_call.rs.      *)
(*                                                                         *)
(* Bytes are byte values (10 = '\n', 32 = ' ').  serde_json is a library   *)
(* outside the repository; its decoders are modelled on a small table of   *)
(* documents: the byte string "{m}" stands for a JSON document of the      *)
(* expected payload shape M, "{e}" for the envelope {"error":"e"}, and     *)
(* every other line the model can build fails both decodes.                *)
(***************************************************************************)
EXTENDS Integers, Sequences, FiniteSets, TLC

VARIABLES
    \* ---- GenericStreamParser and its byte source
    input,      \* the whole byte sequence the source will deliver
    rest,       \* bytes the source has not yet produced
    ready,      \* chunks the source holds ready (Poll::Ready(Some(Ok(bytes))))
    closed,     \* the source reports Poll::Ready(None) once `ready` is drained
    buffer,     \* GenericStreamParser::buffer
    trace,      \* items poll_next has returned so far (events and End)
    splitMidLine, \* history: some chunk boundary fell strictly inside a line
    \* ---- ToolRegistry values (ToolRegistry { tools: Arc<HashMap<..>> })
    handles,    \* registry handle -> the Arc allocation it points to (or NoArc)
    arcs,       \* Arc allocation -> HashMap<String, DynTool>
    lastOp,     \* the last registry call and what it returned
    \* ---- OllamaClient::chat_stream with tool dispatch (src/client.rs)
    script,     \* items the stream's parser yields, in order
    pos,        \* how many of them the unfold closure has taken
    streamEnded, \* the stream returned None to the consumer
    forwarded,  \* items yielded to the consumer of the ChatStream
    tasks,      \* the tasks spawned for ToolCall events, in spawn order
    invoked,    \* Tool::call invocations made, in order
    sent,       \* (invocation id, result) pairs the transport accepted, each
                \* with who made the call (history): a task or the caller
    logged,     \* invocation ids whose send_tool_result failed (only logged)
    \* ---- the conversation loop of examples/streaming_chat_tool_call.rs
    lpc,        \* where main is: idle, sending, draining, finished, failed
    history,    \* the conversation history
    requests,   \* the histories sent so far, one per chat_stream request
    turnEvents, \* events drained in the current turn
    assistant_buffer,
    message_tool_calls,
    seen_tool_call_ids,
    tool_was_called,
    turn_fragments, \* history: the tool-call fragments received in this turn
    \* ---- the legacy StreamParser (src/stream/parser.rs) under an executor
    wake,       \* the pulling task: runnable, or parked with its waker held
                \* by the source ("registered") or by nobody ("lost")
    \* ---- MockTransport (ollama-sdk/src/transport/mock_transport.rs)
    chat_stream_events,
    generate_stream_bytes,
    raw_chat_stream_strings,
    non_streaming_http_response,
    chat_waiting, \* /api/chat requests between the two locks: they found no
                \* raw strings and have not yet locked chat_stream_events
    responses   \* what the transport's calls have returned, in order

parserVars == <<input, rest, ready, closed, buffer, trace, splitMidLine>>
registryVars == <<handles, arcs, lastOp>>
clientVars == <<script, pos, streamEnded, forwarded, tasks, sent, logged>>
loopVars == <<lpc, history, requests, turnEvents, assistant_buffer,
              message_tool_calls, seen_tool_call_ids, tool_was_called,
              turn_fragments>>
legacyVars == <<wake>>
transportVars == <<chat_stream_events, generate_stream_bytes, raw_chat_stream_strings,
                   non_streaming_http_response, chat_waiting, responses>>
otherVars == <<legacyVars, transportVars>>

vars == <<input, rest, ready, closed, buffer, trace, splitMidLine,
          handles, arcs, lastOp,
          script, pos, streamEnded, forwarded, tasks, invoked, sent, logged,
          lpc, history, requests, turnEvents, assistant_buffer,
          message_tool_calls, seen_tool_call_ids, tool_was_called, turn_fragments,
          wake, chat_stream_events, generate_stream_bytes, raw_chat_stream_strings,
          non_streaming_http_response, chat_waiting, responses>>

-----------------------------------------------------------------------------
\* Bounds of the parser model.
MaxPieces == 3      \* an input is a concatenation of at most MaxPieces pieces
MaxReady == 2       \* chunks the source may hold ready at once
MaxEndPolls == 2    \* pulls still made after the parser reported end
MaxFaults == 1      \* errors a failing byte source yields
MaxFaultyPieces == 4 \* pieces of an input delivered by a failing source
MaxLines == 3       \* lines of an input made of whole lines
MaxDocLines == 2    \* lines of an input made of documents

\* Byte values.
NL == 10
SP == 32
ReplacementChar == 65533

\* "{m}": a document of the payload shape; "{e}": the envelope whose error
\* string is "e"; "x": text that is no JSON document.
MsgDoc == <<123, 109, 125>>
ErrDoc == <<123, 101, 125>>
ErrText == <<101>>
\* "{b}": a document with the payload's fields and an "error" string, which
\* both decoders accept (serde ignores fields a struct does not name).
BothDoc == <<123, 98, 125>>
PlainText == <<120>>
\* U+00A0 (no-break space) in UTF-8: two bytes, white space to str::trim.
Nbsp == <<194, 160>>
Pieces == {MsgDoc, ErrDoc, PlainText, <<SP>>, <<NL>>, Nbsp}

RECURSIVE Inputs(_)
Inputs(k) ==
    IF k = 0 THEN {<<>>}
    ELSE LET prev == Inputs(k - 1)
         IN prev \cup {i \o p : i \in prev, p \in Pieces}

\* Inputs of the failing source: text, blanks and newlines.
FaultyPieces == {PlainText, <<SP>>, <<NL>>}

RECURSIVE FaultyInputs(_)
FaultyInputs(k) ==
    IF k = 0 THEN {<<>>}
    ELSE LET prev == FaultyInputs(k - 1)
         IN prev \cup {i \o p : i \in prev, p \in FaultyPieces}

\* Inputs made of one document per line, of every decoding class.
DocPieces == {MsgDoc \o <<NL>>, ErrDoc \o <<NL>>, BothDoc \o <<NL>>, PlainText \o <<NL>>}

RECURSIVE DocInputs(_)
DocInputs(k) ==
    IF k = 0 THEN {<<>>}
    ELSE LET prev == DocInputs(k - 1)
         IN prev \cup {i \o p : i \in prev, p \in DocPieces}

\* Inputs made of whole newline-terminated lines (some of them blank).
LinePieces == {PlainText \o <<NL>>, MsgDoc \o <<NL>>, ErrDoc \o <<NL>>, <<NL>>}

RECURSIVE LineInputs(_)
LineInputs(k) ==
    IF k = 0 THEN {<<>>}
    ELSE LET prev == LineInputs(k - 1)
         IN prev \cup {i \o p : i \in prev, p \in LinePieces}

-----------------------------------------------------------------------------
\* String helpers of the Rust standard library used by the parser.

\* String::from_utf8_lossy: the code points of the bytes.  A well-formed
\* sequence of one to four bytes is decoded; every maximal ill-formed
\* sequence (a byte that cannot start a character, or a start byte with the
\* continuation bytes that still fit it) becomes one U+FFFD.
RECURSIVE FromUtf8Lossy(_)
FromUtf8Lossy(bytes) ==
    IF bytes = <<>> THEN <<>>
    ELSE LET n == Len(bytes)
             b1 == bytes[1]
             InRange(k, lo, hi) == k <= n /\ bytes[k] >= lo /\ bytes[k] <= hi
             width == IF b1 < 128 THEN 1
                      ELSE IF b1 >= 194 /\ b1 <= 223 THEN 2
                      ELSE IF b1 >= 224 /\ b1 <= 239 THEN 3
                      ELSE IF b1 >= 240 /\ b1 <= 244 THEN 4
                      ELSE 0
             second_ok == CASE b1 = 224 -> InRange(2, 160, 191)
                            [] b1 = 237 -> InRange(2, 128, 159)
                            [] b1 = 240 -> InRange(2, 144, 191)
                            [] b1 = 244 -> InRange(2, 128, 143)
                            [] OTHER -> InRange(2, 128, 191)
             \* bytes taken: the character, or the maximal ill-formed sequence
             taken == IF width <= 1 THEN 1
                      ELSE IF ~second_ok THEN 1
                      ELSE IF width = 2 THEN 2
                      ELSE IF ~InRange(3, 128, 191) THEN 2
                      ELSE IF width = 3 THEN 3
                      ELSE IF ~InRange(4, 128, 191) THEN 3
                      ELSE 4
             ch == CASE width = 1 -> b1
                     [] width = 2 -> (b1 % 32) * 64 + (bytes[2] % 64)
                     [] width = 3 -> (b1 % 16) * 4096 + (bytes[2] % 64) * 64
                                     + (bytes[3] % 64)
                     [] OTHER -> (b1 % 8) * 262144 + (bytes[2] % 64) * 4096
                                 + (bytes[3] % 64) * 64 + (bytes[4] % 64)
         IN <<IF width >= 1 /\ taken = width THEN ch ELSE ReplacementChar>>
            \o FromUtf8Lossy(SubSeq(bytes, taken + 1, n))

\* char::is_whitespace: the code points with the White_Space property
IsWhitespace(c) ==
    \/ c \in {9, 10, 11, 12, 13, 32, 133, 160, 5760, 8232, 8233, 8239, 8287, 12288}
    \/ (c >= 8192 /\ c <= 8202)

\* str::trim
RECURSIVE TrimStart(_)
TrimStart(s) ==
    IF s # <<>> /\ IsWhitespace(Head(s)) THEN TrimStart(Tail(s)) ELSE s

RECURSIVE TrimEnd(_)
TrimEnd(s) ==
    IF s # <<>> /\ IsWhitespace(s[Len(s)])
    THEN TrimEnd(SubSeq(s, 1, Len(s) - 1)) ELSE s

Trim(s) == TrimEnd(TrimStart(s))

\* Variant: the position of the last newline instead of the first.
NewlinePos_Last(buf) ==
    IF \E i \in 1..Len(buf) : buf[i] = NL
    THEN CHOOSE i \in 1..Len(buf) :
            buf[i] = NL /\ \A j \in (i + 1)..Len(buf) : buf[j] # NL
    ELSE 0

\* self.buffer.iter().position(|&b| b == b'\n'); 0 stands for None
NewlinePos(buf) ==
    IF \E i \in 1..Len(buf) : buf[i] = NL
    THEN CHOOSE i \in 1..Len(buf) :
            buf[i] = NL /\ \A j \in 1..(i - 1) : buf[j] # NL
    ELSE 0

-----------------------------------------------------------------------------
\* serde_json decoders (library): result of decoding a trimmed line.
\* A failure carries the description of that decode (serde's e.to_string()),
\* which names the decoder that failed and depends on the line.

\* serde_json::from_str::<M>(line_str)
DecodeM(line) ==
    IF line \in {MsgDoc, BothDoc} THEN [ok |-> TRUE, value |-> line]
    ELSE [ok |-> FALSE, error |-> <<"M", line>>]

\* serde_json::from_str::<OllamaError>(line_str)
DecodeOllamaError(line) ==
    IF line \in {ErrDoc, BothDoc} THEN [ok |-> TRUE, error |-> ErrText]
    ELSE [ok |-> FALSE, error |-> <<"OllamaError", line>>]

\* StreamEventExt constructors
NoDiag == <<>>
FromMessage(msg) == [kind |-> "Message", text |-> msg, diag |-> NoDiag]
FromError(err) == [kind |-> "Error", text |-> err, diag |-> NoDiag]
PartialEvent(partial, error) == [kind |-> "Partial", text |-> partial, diag |-> error]

EndItem == [kind |-> "End", text |-> <<>>, diag |-> NoDiag]
NoEvent == [kind |-> "None", text |-> <<>>, diag |-> NoDiag]
PendingItem == [kind |-> "Pending", text |-> <<>>, diag |-> NoDiag]

\* An item Err(e) of the byte source, as it sits among the ready chunks (no
\* byte has this value), and the item Some(Err(e)) poll_next returns for it.
TransportErr == <<-1>>
SourceErrorItem == [kind |-> "SourceError", text |-> <<>>, diag |-> NoDiag]

\* Variant: the envelope decode is tried first.
ClassifyLine_EnvelopeFirst(line_str) ==
    LET e == DecodeOllamaError(line_str) IN
    IF e.ok THEN FromError(e.error)
    ELSE LET m == DecodeM(line_str) IN
         IF m.ok THEN FromMessage(m.value)
         ELSE PartialEvent(line_str, m.error)

\* Variant: no second decode, a payload failure goes straight to Partial.
ClassifyLine_NoEnvelope(line_str) ==
    LET m == DecodeM(line_str) IN
    IF m.ok THEN FromMessage(m.value)
    ELSE PartialEvent(line_str, m.error)

\* Variant: the Partial carries the failure of the second (envelope) decode.
ClassifyLine_SecondError(line_str) ==
    LET m == DecodeM(line_str) IN
    IF m.ok THEN FromMessage(m.value)
    ELSE LET e == DecodeOllamaError(line_str) IN
         IF e.ok THEN FromError(e.error)
         ELSE PartialEvent(line_str, e.error)

\* The fallback chain of parse_lines for one non-blank trimmed line.
ClassifyLine(line_str) ==
    LET m == DecodeM(line_str) IN
    IF m.ok THEN FromMessage(m.value)
    ELSE LET e == DecodeOllamaError(line_str) IN
         IF e.ok THEN FromError(e.error)
         ELSE PartialEvent(line_str, m.error)

\* Variant: a blank line is classified like any other line.
RECURSIVE parse_lines_SurfaceBlank(_)
parse_lines_SurfaceBlank(buf) ==
    LET newline_pos == NewlinePos(buf) IN
    IF newline_pos = 0 THEN [ev |-> NoEvent, buf |-> buf]
    ELSE LET line_bytes == SubSeq(buf, 1, newline_pos)
             remaining == SubSeq(buf, newline_pos + 1, Len(buf))
             line_str == Trim(FromUtf8Lossy(line_bytes))
         IN [ev |-> ClassifyLine(line_str), buf |-> remaining]

\* Variant: a Partial or Error line aborts: what is buffered behind it is dropped.
RECURSIVE parse_lines_AbortOnBadLine(_)
parse_lines_AbortOnBadLine(buf) ==
    LET newline_pos == NewlinePos(buf) IN
    IF newline_pos = 0 THEN [ev |-> NoEvent, buf |-> buf]
    ELSE LET line_bytes == SubSeq(buf, 1, newline_pos)
             remaining == SubSeq(buf, newline_pos + 1, Len(buf))
             line_str == Trim(FromUtf8Lossy(line_bytes))
         IN IF line_str = <<>> THEN parse_lines_AbortOnBadLine(remaining)
            ELSE [ev |-> ClassifyLine(line_str),
                  buf |-> IF ClassifyLine(line_str).kind = "Message"
                          THEN remaining ELSE <<>>]

\* GenericStreamParser::parse_lines: the event (or NoEvent) and the buffer left.
\* Variant: taking a line out of the buffer also takes the byte behind its
\* newline.
RECURSIVE parse_lines_DropsNextByte(_)
parse_lines_DropsNextByte(buf) ==
    LET newline_pos == NewlinePos(buf) IN
    IF newline_pos = 0 THEN [ev |-> NoEvent, buf |-> buf]
    ELSE LET line_bytes == SubSeq(buf, 1, newline_pos)
             remaining == SubSeq(buf, newline_pos + 2, Len(buf))
             line_str == Trim(FromUtf8Lossy(line_bytes))
         IN IF line_str = <<>> THEN parse_lines_DropsNextByte(remaining)
            ELSE [ev |-> ClassifyLine(line_str), buf |-> remaining]

RECURSIVE parse_lines(_)
parse_lines(buf) ==
    LET newline_pos == NewlinePos(buf) IN
    IF newline_pos = 0 THEN [ev |-> NoEvent, buf |-> buf]
    ELSE LET line_bytes == SubSeq(buf, 1, newline_pos)
             remaining == SubSeq(buf, newline_pos + 1, Len(buf))
             line_str == Trim(FromUtf8Lossy(line_bytes))
         IN IF line_str = <<>> THEN parse_lines(remaining)
            ELSE [ev |-> ClassifyLine(line_str), buf |-> remaining]

\* Variant: the leftover is classified like a newline-terminated line.
FlushAtEnd_Classifies(buf) ==
    IF buf = <<>> THEN [res |-> EndItem, buf |-> buf]
    ELSE LET content == FromUtf8Lossy(buf) IN
         IF Trim(content) # <<>>
         THEN [res |-> ClassifyLine(Trim(content)), buf |-> <<>>]
         ELSE [res |-> EndItem, buf |-> <<>>]

\* Variant: the leftover is yielded without clearing the buffer.
FlushAtEnd_NoClear(buf) ==
    IF buf = <<>> THEN [res |-> EndItem, buf |-> buf]
    ELSE LET content == FromUtf8Lossy(buf) IN
         IF Trim(content) # <<>>
         THEN [res |-> PartialEvent(content, NoDiag), buf |-> buf]
         ELSE [res |-> EndItem, buf |-> <<>>]

\* The end-of-stream branch of poll_next (Poll::Ready(None) from the source).
FlushAtEnd(buf) ==
    IF buf = <<>> THEN [res |-> EndItem, buf |-> buf]
    ELSE LET content == FromUtf8Lossy(buf) IN
         IF Trim(content) # <<>>
         THEN [res |-> PartialEvent(content, NoDiag), buf |-> <<>>]
         ELSE [res |-> EndItem, buf |-> <<>>]

\* Variant: a new chunk replaces the buffered bytes instead of extending them.
RECURSIVE poll_next_ReplaceBuffer(_, _, _)
poll_next_ReplaceBuffer(buf, q, srcClosed) ==
    LET p == parse_lines(buf) IN
    IF p.ev.kind # "None" THEN [res |-> p.ev, buf |-> p.buf, q |-> q]
    ELSE IF q # <<>> /\ Head(q) = TransportErr
         THEN [res |-> SourceErrorItem, buf |-> p.buf, q |-> Tail(q)]
    ELSE IF q # <<>> THEN poll_next_ReplaceBuffer(Head(q), Tail(q), srcClosed)
    ELSE IF ~srcClosed THEN [res |-> PendingItem, buf |-> p.buf, q |-> q]
    ELSE LET f == FlushAtEnd(p.buf) IN [res |-> f.res, buf |-> f.buf, q |-> q]

\* Variant: every pull first takes what the source holds ready, then parses.
RECURSIVE poll_next_PollFirst(_, _, _)
poll_next_PollFirst(buf, q, srcClosed) ==
    IF q # <<>> /\ Head(q) # TransportErr
    THEN poll_next_PollFirst(buf \o Head(q), Tail(q), srcClosed)
    ELSE LET p == parse_lines(buf) IN
         IF p.ev.kind # "None" THEN [res |-> p.ev, buf |-> p.buf, q |-> q]
         ELSE IF q # <<>> THEN [res |-> SourceErrorItem, buf |-> p.buf, q |-> Tail(q)]
         ELSE IF ~srcClosed THEN [res |-> PendingItem, buf |-> p.buf, q |-> q]
         ELSE LET f == FlushAtEnd(p.buf) IN [res |-> f.res, buf |-> f.buf, q |-> q]

\* Variant: a pull that finds the source not ready reports end.
RECURSIVE poll_next_EndWhenStarved(_, _, _)
poll_next_EndWhenStarved(buf, q, srcClosed) ==
    LET p == parse_lines(buf) IN
    IF p.ev.kind # "None" THEN [res |-> p.ev, buf |-> p.buf, q |-> q]
    ELSE IF q # <<>> /\ Head(q) = TransportErr
         THEN [res |-> SourceErrorItem, buf |-> p.buf, q |-> Tail(q)]
    ELSE IF q # <<>> THEN poll_next_EndWhenStarved(p.buf \o Head(q), Tail(q), srcClosed)
    ELSE IF ~srcClosed THEN [res |-> EndItem, buf |-> p.buf, q |-> q]
    ELSE LET f == FlushAtEnd(p.buf) IN [res |-> f.res, buf |-> f.buf, q |-> q]

\* GenericStreamParser::poll_next: one call, looping until it can return.
\* q is what the source holds ready; srcClosed says that the source reports
\* completion once q is drained (and keeps reporting it when polled again).
RECURSIVE poll_next(_, _, _)
poll_next(buf, q, srcClosed) ==
    LET p == parse_lines(buf) IN
    IF p.ev.kind # "None" THEN [res |-> p.ev, buf |-> p.buf, q |-> q]
    ELSE IF q # <<>> /\ Head(q) = TransportErr
         THEN [res |-> SourceErrorItem, buf |-> p.buf, q |-> Tail(q)]
    ELSE IF q # <<>> THEN poll_next(p.buf \o Head(q), Tail(q), srcClosed)
    ELSE IF ~srcClosed THEN [res |-> PendingItem, buf |-> p.buf, q |-> q]
    ELSE LET f == FlushAtEnd(p.buf) IN [res |-> f.res, buf |-> f.buf, q |-> q]

-----------------------------------------------------------------------------
\* Parser specification: a byte source that splits `input` into chunks of any
\* size, and a consumer pulling events.

EndCount == Cardinality({i \in 1..Len(trace) : trace[i].kind = "End"})

ParserStart ==
    /\ input \in Inputs(MaxPieces)
    /\ rest = input
    /\ ready = <<>>
    /\ closed = FALSE
    /\ buffer = <<>>
    /\ trace = <<>>
    /\ splitMidLine = FALSE

\* The source gets its next chunk ready: any number of the remaining bytes.
SourceChunk ==
    /\ ~closed
    /\ Len(ready) < MaxReady
    /\ \E n \in 1..Len(rest) :
          /\ ready' = Append(ready, SubSeq(rest, 1, n))
          /\ rest' = SubSeq(rest, n + 1, Len(rest))
          /\ splitMidLine' = (splitMidLine \/ (n < Len(rest) /\ rest[n] # NL))
    /\ UNCHANGED <<input, closed, buffer, trace>>
    /\ UNCHANGED <<registryVars, clientVars, invoked, loopVars, otherVars>>

\* A failing source: its next item is Err(e); it may go on afterwards.
FaultCount ==
    Cardinality({i \in 1..Len(ready) : ready[i] = TransportErr})
    + Cardinality({i \in 1..Len(trace) : trace[i].kind = "SourceError"})

SourceFail ==
    /\ ~closed
    /\ Len(ready) < MaxReady
    /\ FaultCount < MaxFaults
    /\ ready' = Append(ready, TransportErr)
    /\ UNCHANGED <<input, rest, closed, buffer, trace, splitMidLine>>
    /\ UNCHANGED <<registryVars, clientVars, invoked, loopVars, otherVars>>

\* The source has delivered everything and completes.
SourceClose ==
    /\ ~closed
    /\ rest = <<>>
    /\ closed' = TRUE
    /\ UNCHANGED <<input, rest, ready, buffer, trace, splitMidLine>>
    /\ UNCHANGED <<registryVars, clientVars, invoked, loopVars, otherVars>>

\* The consumer pulls: one call of poll_next.
PollNext ==
    /\ EndCount < MaxEndPolls
    /\ Len(trace) < Len(input) + MaxEndPolls + MaxFaults
    /\ LET r == poll_next(buffer, ready, closed) IN
          /\ buffer' = r.buf
          /\ ready' = r.q
          /\ trace' = IF r.res.kind = "Pending" THEN trace ELSE Append(trace, r.res)
    /\ UNCHANGED <<input, rest, closed, splitMidLine>>
    /\ UNCHANGED <<registryVars, clientVars, invoked, loopVars, otherVars>>

ParserNext == SourceChunk \/ SourceClose \/ PollNext

\* The parser over an input of whole lines.
LinesStart ==
    /\ input \in LineInputs(MaxLines)
    /\ rest = input
    /\ ready = <<>>
    /\ closed = FALSE
    /\ buffer = <<>>
    /\ trace = <<>>
    /\ splitMidLine = FALSE

-----------------------------------------------------------------------------
\* The legacy StreamParser (src/stream/parser.rs), pulled by a task of an
\* executor: a task whose poll returned Pending runs again only when the
\* waker it passed down is woken, and a source keeps that waker only when its
\* own poll returned Pending.

\* serde_json::from_str::<StreamEvent>(&line_str)
DecodeStreamEvent(line) ==
    IF line = MsgDoc THEN [ok |-> TRUE, value |-> line] ELSE [ok |-> FALSE, value |-> <<>>]

\* StreamParser::parse_lines
RECURSIVE legacy_parse_lines(_)
legacy_parse_lines(buf) ==
    LET newline_pos == NewlinePos(buf) IN
    IF newline_pos = 0 THEN [ev |-> NoEvent, buf |-> buf]
    ELSE LET line_bytes == SubSeq(buf, 1, newline_pos)
             remaining == SubSeq(buf, newline_pos + 1, Len(buf))
             line_str == Trim(FromUtf8Lossy(line_bytes))
             d == DecodeStreamEvent(line_str)
         IN IF line_str = <<>> THEN legacy_parse_lines(remaining)
            ELSE [ev |-> IF d.ok THEN FromMessage(d.value)
                         ELSE PartialEvent(line_str, NoDiag),
                  buf |-> remaining]

\* StreamParser::poll_next: one call.  `waker` tells who holds the task's
\* waker when the call returns Pending.
legacy_poll_next(buf, q, srcClosed) ==
    LET p == legacy_parse_lines(buf) IN
    IF p.ev.kind # "None"
    THEN [res |-> p.ev, buf |-> p.buf, q |-> q, waker |-> "runnable"]
    ELSE IF q # <<>> /\ Head(q) = TransportErr
    THEN [res |-> SourceErrorItem, buf |-> p.buf, q |-> Tail(q), waker |-> "runnable"]
    ELSE IF q # <<>>
    THEN LET p2 == legacy_parse_lines(p.buf \o Head(q)) IN
         IF p2.ev.kind # "None"
         THEN [res |-> p2.ev, buf |-> p2.buf, q |-> Tail(q), waker |-> "runnable"]
         ELSE [res |-> PendingItem, buf |-> p2.buf, q |-> Tail(q), waker |-> "lost"]
    ELSE IF ~srcClosed
    THEN [res |-> PendingItem, buf |-> p.buf, q |-> q, waker |-> "registered"]
    ELSE IF p.buf # <<>>
    THEN [res |-> PartialEvent(FromUtf8Lossy(p.buf), NoDiag), buf |-> <<>>, q |-> q,
          waker |-> "runnable"]
    ELSE [res |-> EndItem, buf |-> p.buf, q |-> q, waker |-> "runnable"]

LegacyStart ==
    /\ input \in Inputs(MaxPieces)
    /\ rest = input
    /\ ready = <<>>
    /\ closed = FALSE
    /\ buffer = <<>>
    /\ trace = <<>>
    /\ splitMidLine = FALSE
    /\ wake = "runnable"

\* The source gets a chunk ready and wakes the task if it holds its waker.
LegacySourceChunk ==
    /\ ~closed
    /\ Len(ready) < MaxReady
    /\ \E n \in 1..Len(rest) :
          /\ ready' = Append(ready, SubSeq(rest, 1, n))
          /\ rest' = SubSeq(rest, n + 1, Len(rest))
          /\ splitMidLine' = (splitMidLine \/ (n < Len(rest) /\ rest[n] # NL))
    /\ wake' = IF wake = "registered" THEN "runnable" ELSE wake
    /\ UNCHANGED <<input, closed, buffer, trace>>
    /\ UNCHANGED <<registryVars, clientVars, invoked, loopVars, transportVars>>

LegacySourceClose ==
    /\ ~closed
    /\ rest = <<>>
    /\ closed' = TRUE
    /\ wake' = IF wake = "registered" THEN "runnable" ELSE wake
    /\ UNCHANGED <<input, rest, ready, buffer, trace, splitMidLine>>
    /\ UNCHANGED <<registryVars, clientVars, invoked, loopVars, transportVars>>

\* The executor polls the task, which is inside parser.next().await.
LegacyPoll ==
    /\ wake = "runnable"
    /\ EndCount < MaxEndPolls
    /\ Len(trace) < Len(input) + MaxEndPolls + MaxFaults
    /\ LET r == legacy_poll_next(buffer, ready, closed) IN
          /\ buffer' = r.buf
          /\ ready' = r.q
          /\ wake' = r.waker
          /\ trace' = IF r.res.kind = "Pending" THEN trace ELSE Append(trace, r.res)
    /\ UNCHANGED <<input, rest, closed, splitMidLine>>
    /\ UNCHANGED <<registryVars, clientVars, invoked, loopVars, transportVars>>

LegacyNext == LegacySourceChunk \/ LegacySourceClose \/ LegacyPoll

-----------------------------------------------------------------------------
\* MockTransport (ollama-sdk/src/transport/mock_transport.rs).  The stores
\* are Arc<Mutex<..>> shared by the clones of a transport, so the with_*
\* builders and the requests of its holders interleave; a step is what runs
\* under one lock.  `responses` logs what each request was answered with.

MaxRequests == 4    \* requests made to one transport

Urls == {"/api/chat", "/api/generate", "/api/tags"}

RawStringLists == {<<MsgDoc, PlainText>>}
EventLists == {<<FromError(ErrText), FromMessage(MsgDoc)>>}
GenerateLists == {<<PlainText \o <<NL>>>>}
EmptyResponse == [body |-> <<>>]
HttpResponses == {[body |-> <<"tags">>]}

\* serde_json::to_string(&event): the variant name tags the value.
SerializeEvent(event) ==
    CASE event.kind = "Message" -> <<123, 77>> \o event.text \o <<125>>
      [] event.kind = "Error" -> <<123, 69>> \o event.text \o <<125>>
      [] OTHER -> <<123, 80>> \o event.text \o <<125>>

\* Bytes::from(format!("{}\n", s)) for each string
RawLines(strings) == [k \in 1..Len(strings) |-> strings[k] \o <<NL>>]
EventLines(events) == [k \in 1..Len(events) |-> SerializeEvent(events[k]) \o <<NL>>]

\* MockTransport::send_http_request
send_http_request(stored) ==
    IF stored # <<>>
    THEN [response |-> Head(stored), stored |-> <<>>]
    ELSE [response |-> EmptyResponse, stored |-> stored]

\* Variant: the raw strings are read without draining them.
send_http_stream_request_NoDrain(url, raw, generate) ==
    IF url = "/api/chat" /\ raw # <<>>
    THEN [returned |-> TRUE, items |-> RawLines(raw), raw |-> raw, generate |-> generate]
    ELSE IF url = "/api/chat"
    THEN [returned |-> FALSE, items |-> <<>>, raw |-> <<>>, generate |-> generate]
    ELSE IF url = "/api/generate"
    THEN [returned |-> TRUE, items |-> generate, raw |-> raw, generate |-> <<>>]
    ELSE [returned |-> TRUE, items |-> <<>>, raw |-> raw, generate |-> generate]

\* MockTransport::send_http_stream_request up to its first return or to the
\* end of the statement that drains the raw strings: whether it returned, the
\* items of the returned stream and the stores it locked, after the call.
\* An /api/chat request that found no raw strings goes on to the events.
send_http_stream_request(url, raw, generate) ==
    IF url = "/api/chat" /\ raw # <<>>
    THEN [returned |-> TRUE, items |-> RawLines(raw), raw |-> <<>>, generate |-> generate]
    ELSE IF url = "/api/chat"
    THEN [returned |-> FALSE, items |-> <<>>, raw |-> <<>>, generate |-> generate]
    ELSE IF url = "/api/generate"
    THEN [returned |-> TRUE, items |-> generate, raw |-> raw, generate |-> <<>>]
    ELSE [returned |-> TRUE, items |-> <<>>, raw |-> raw, generate |-> generate]

\* The rest of an /api/chat request: the events are drained and returned
\* (an empty stream when there are none).
drain_chat_stream_events(events) == [items |-> EventLines(events), events |-> <<>>]

WithChatStreamEvents ==
    /\ \E events \in EventLists : chat_stream_events' = events
    /\ UNCHANGED <<generate_stream_bytes, raw_chat_stream_strings,
                   non_streaming_http_response, chat_waiting, responses>>
    /\ UNCHANGED <<parserVars, registryVars, clientVars, invoked, loopVars, legacyVars>>

WithGenerateStreamBytes ==
    /\ \E bytes \in GenerateLists : generate_stream_bytes' = bytes
    /\ UNCHANGED <<chat_stream_events, raw_chat_stream_strings,
                   non_streaming_http_response, chat_waiting, responses>>
    /\ UNCHANGED <<parserVars, registryVars, clientVars, invoked, loopVars, legacyVars>>

WithRawChatStreamStrings ==
    /\ \E strings \in RawStringLists : raw_chat_stream_strings' = strings
    /\ UNCHANGED <<chat_stream_events, generate_stream_bytes,
                   non_streaming_http_response, chat_waiting, responses>>
    /\ UNCHANGED <<parserVars, registryVars, clientVars, invoked, loopVars, legacyVars>>

WithNonStreamingHttpResponse ==
    /\ \E response \in HttpResponses : non_streaming_http_response' = <<response>>
    /\ UNCHANGED <<chat_stream_events, generate_stream_bytes,
                   raw_chat_stream_strings, chat_waiting, responses>>
    /\ UNCHANGED <<parserVars, registryVars, clientVars, invoked, loopVars, legacyVars>>

SendHttpRequest ==
    /\ Len(responses) + chat_waiting < MaxRequests
    /\ LET r == send_http_request(non_streaming_http_response) IN
          /\ non_streaming_http_response' = r.stored
          /\ responses' = Append(responses,
                [call |-> "send_http_request", url |-> "", response |-> r.response,
                 items |-> <<>>])
    /\ UNCHANGED <<chat_stream_events, generate_stream_bytes, raw_chat_stream_strings,
                   chat_waiting>>
    /\ UNCHANGED <<parserVars, registryVars, clientVars, invoked, loopVars, legacyVars>>

\* A holder of the transport makes a stream request: the part of the call
\* that runs up to the release of the first lock.
SendHttpStreamRequest ==
    /\ Len(responses) + chat_waiting < MaxRequests
    /\ \E url \in Urls :
          LET r == send_http_stream_request(url, raw_chat_stream_strings,
                                            generate_stream_bytes)
          IN /\ raw_chat_stream_strings' = r.raw
             /\ generate_stream_bytes' = r.generate
             /\ IF r.returned
                THEN /\ responses' = Append(responses,
                            [call |-> "send_http_stream_request", url |-> url,
                             response |-> EmptyResponse, items |-> r.items])
                     /\ UNCHANGED chat_waiting
                ELSE /\ chat_waiting' = chat_waiting + 1
                     /\ UNCHANGED responses
    /\ UNCHANGED <<chat_stream_events, non_streaming_http_response>>
    /\ UNCHANGED <<parserVars, registryVars, clientVars, invoked, loopVars, legacyVars>>

\* An /api/chat request that found no raw strings locks chat_stream_events,
\* drains them and returns.
SendHttpStreamRequestEvents ==
    /\ chat_waiting > 0
    /\ LET r == drain_chat_stream_events(chat_stream_events) IN
          /\ chat_stream_events' = r.events
          /\ responses' = Append(responses,
                [call |-> "send_http_stream_request", url |-> "/api/chat",
                 response |-> EmptyResponse, items |-> r.items])
    /\ chat_waiting' = chat_waiting - 1
    /\ UNCHANGED <<generate_stream_bytes, raw_chat_stream_strings,
                   non_streaming_http_response>>
    /\ UNCHANGED <<parserVars, registryVars, clientVars, invoked, loopVars, legacyVars>>

TransportNext ==
    \/ WithChatStreamEvents
    \/ WithGenerateStreamBytes
    \/ WithRawChatStreamStrings
    \/ WithNonStreamingHttpResponse
    \/ SendHttpRequest
    \/ SendHttpStreamRequest
    \/ SendHttpStreamRequestEvents

-----------------------------------------------------------------------------
\* The parser over an input of documents.
DocsStart ==
    /\ input \in DocInputs(MaxDocLines)
    /\ rest = input
    /\ ready = <<>>
    /\ closed = FALSE
    /\ buffer = <<>>
    /\ trace = <<>>
    /\ splitMidLine = FALSE

\* The parser over a source that may fail.
FaultyStart ==
    /\ input \in FaultyInputs(MaxFaultyPieces)
    /\ rest = input
    /\ ready = <<>>
    /\ closed = FALSE
    /\ buffer = <<>>
    /\ trace = <<>>
    /\ splitMidLine = FALSE

FaultyNext == SourceChunk \/ SourceFail \/ SourceClose \/ PollNext

-----------------------------------------------------------------------------
\* ToolRegistry (ollama-sdk/src/tools/registry.rs).
\* A registry value holds an Arc to a HashMap; clones share the allocation
\* and Arc::make_mut copies the map before a write when it is shared.

NoTool == "none"
NoArc == 0

\* Tool objects (Arc<dyn Tool>) and the name each reports (Tool::name).
\* search_v2 is a second tool object that reports the same name as search.
ToolObjects == {"search", "search_v2", "failing_tool", "slow_tool"}
ToolNames == {"search", "failing_tool", "slow_tool", "nosuch"}
NameOf(tool) == IF tool = "search_v2" THEN "search" ELSE tool

Handles == {"client", "clone"}
ArcIds == 1..Cardinality(Handles)

EmptyMap == [n \in ToolNames |-> NoTool]

StrongCount(hs, a) == Cardinality({h \in Handles : hs[h] = a})

\* Variant: the write goes to the shared allocation, without a copy.
MakeMut_InPlace(hs, h) == hs[h]

\* Arc::make_mut(&mut self.tools): the allocation the handle writes to.
\* When the allocation is shared, the map is cloned into a fresh one.
MakeMut(hs, h) ==
    IF StrongCount(hs, hs[h]) = 1 THEN hs[h]
    ELSE CHOOSE a \in ArcIds :
            StrongCount(hs, a) = 0 /\ \A b \in ArcIds : StrongCount(hs, b) = 0 => a <= b

\* ToolRegistry::get_tool
get_tool(hs, as, h, name) == as[hs[h]][name]

RegistryIdle ==
    /\ handles = [h \in Handles |-> IF h = "client" THEN 1 ELSE NoArc]
    /\ arcs = [a \in ArcIds |-> EmptyMap]
    /\ lastOp = [op |-> "new", handle |-> "client", name |-> NoTool,
                 tool |-> NoTool, ok |-> TRUE]

\* ToolRegistry::register_tool
register_tool(h, tool) ==
    /\ handles[h] # NoArc
    /\ LET tool_name == NameOf(tool)
           target == MakeMut(handles, h)
           old == arcs[handles[h]]
           previous == old[tool_name]          \* what HashMap::insert returns
       IN /\ handles' = [handles EXCEPT ![h] = target]
          /\ arcs' = [arcs EXCEPT ![target] = [old EXCEPT ![tool_name] = tool]]
          /\ lastOp' = [op |-> "register", handle |-> h, name |-> tool_name,
                        tool |-> tool, ok |-> (previous = NoTool)]
    /\ UNCHANGED <<parserVars, clientVars, invoked, loopVars, otherVars>>

\* Variant: reports success for a registered name but leaves the entry.
unregister_tool_KeepsEntry(h, name) ==
    /\ handles[h] # NoArc
    /\ LET target == MakeMut(handles, h)
           old == arcs[handles[h]]
           previous == old[name]
       IN /\ handles' = [handles EXCEPT ![h] = target]
          /\ arcs' = [arcs EXCEPT ![target] = old]
          /\ lastOp' = [op |-> "unregister", handle |-> h, name |-> name,
                        tool |-> NoTool, ok |-> (previous # NoTool)]
    /\ UNCHANGED <<parserVars, clientVars, invoked, loopVars, otherVars>>

\* ToolRegistry::unregister_tool
unregister_tool(h, name) ==
    /\ handles[h] # NoArc
    /\ LET target == MakeMut(handles, h)
           old == arcs[handles[h]]
           previous == old[name]               \* what HashMap::remove returns
       IN /\ handles' = [handles EXCEPT ![h] = target]
          /\ arcs' = [arcs EXCEPT ![target] = [old EXCEPT ![name] = NoTool]]
          /\ lastOp' = [op |-> "unregister", handle |-> h, name |-> name,
                        tool |-> NoTool, ok |-> (previous # NoTool)]
    /\ UNCHANGED <<parserVars, clientVars, invoked, loopVars, otherVars>>

\* #[derive(Clone)]: the new value shares the Arc allocation.
CloneRegistry(src, dst) ==
    /\ handles[src] # NoArc
    /\ handles[dst] = NoArc
    /\ handles' = [handles EXCEPT ![dst] = handles[src]]
    /\ lastOp' = [op |-> "clone", handle |-> dst, name |-> NoTool,
                  tool |-> NoTool, ok |-> TRUE]
    /\ UNCHANGED arcs
    /\ UNCHANGED <<parserVars, clientVars, invoked, loopVars, otherVars>>

\* Dropping a clone releases its reference.
DropRegistry(h) ==
    /\ h # "client"
    /\ handles[h] # NoArc
    /\ handles' = [handles EXCEPT ![h] = NoArc]
    /\ lastOp' = [op |-> "drop", handle |-> h, name |-> NoTool,
                  tool |-> NoTool, ok |-> TRUE]
    /\ UNCHANGED arcs
    /\ UNCHANGED <<parserVars, clientVars, invoked, loopVars, otherVars>>

RegisterStep == \E h \in Handles, tool \in ToolObjects : register_tool(h, tool)
UnregisterStep == \E h \in Handles, name \in ToolNames : unregister_tool(h, name)
CloneStep == \E src \in Handles, dst \in Handles : CloneRegistry(src, dst)
DropStep == \E h \in Handles : DropRegistry(h)

RegistryNext == RegisterStep \/ UnregisterStep \/ CloneStep \/ DropStep

-----------------------------------------------------------------------------
\* OllamaClient::chat_stream (src/client.rs): the unfold closure that forwards
\* parser items and spawns one task per ToolCall event, and the spawned task.

MaxEvents == 2      \* items in one stream
MaxCalls == 2       \* ToolCall events in one stream

\* How the registered tools behave when called (the tools of the client
\* tests): search returns a value, failing_tool returns an error, slow_tool
\* runs longer than max_tool_runtime.
Behaviour(tool) ==
    CASE tool = "failing_tool" -> "err"
      [] tool = "slow_tool" -> "slow"
      [] OTHER -> "ok"

ToolCallEvent(id, name) ==
    [kind |-> "ToolCall", invocation_id |-> id, name |-> name, input |-> <<"input", id>>]
PlainItem(kind) ==
    [kind |-> kind, invocation_id |-> "", name |-> "", input |-> <<>>]

ToolCallEvents ==
    {ToolCallEvent("inv-1", "search"), ToolCallEvent("inv-2", "failing_tool"),
     ToolCallEvent("inv-3", "slow_tool"), ToolCallEvent("inv-4", "nosuch")}

\* Partial and Done are Ok(event) items; StreamError is an Err(e) item.
StreamItems == ToolCallEvents \cup {PlainItem("Partial"), PlainItem("Done"), PlainItem("StreamError")}

CallCount(sq) == Cardinality({i \in 1..Len(sq) : sq[i].kind = "ToolCall"})

RECURSIVE Scripts(_)
Scripts(k) ==
    IF k = 0 THEN {<<>>}
    ELSE LET prev == Scripts(k - 1)
         IN prev \cup {sq \o <<e>> : sq \in prev, e \in StreamItems}

\* serde_json::json! values built by the task
ToolValue(tool, inp) == [kind |-> "result", by |-> tool, about |-> inp]
ErrorValue(why, what) == [kind |-> "error", by |-> why, about |-> what]
NoValue == [kind |-> "unset", by |-> "", about |-> ""]

\* Variant: an elapsed deadline is not turned into a failure-shaped result.
ToolOutcome_NoTimeoutError(tool, name, inp) ==
    CASE Behaviour(tool) = "ok" -> ToolValue(tool, inp)
      [] Behaviour(tool) = "err" -> ErrorValue("tool_error", tool)
      [] OTHER -> ToolValue(tool, inp)

\* timeout(max_tool_runtime, tool.call(input, ctx)).await mapped to the result
ToolOutcome(tool, name, inp) ==
    CASE Behaviour(tool) = "ok" -> ToolValue(tool, inp)
      [] Behaviour(tool) = "err" -> ErrorValue("tool_error", tool)
      [] OTHER -> ErrorValue("timed_out", name)

\* The task spawned for a ToolCall event; token is the CancellationToken
\* created for it, cancelled the token's state.
NewTask(ev, token) ==
    [invocation_id |-> ev.invocation_id, name |-> ev.name, input |-> ev.input,
     pc |-> "spawned", tool |-> NoTool, tool_result |-> NoValue, work |-> "none",
     live |-> NoTool, token |-> token, cancelled |-> FALSE]

\* Variant: the stream dispatches with the caller's client itself.
StreamRegistry_Live == "client"

\* The registry the stream dispatches with: client_arc's clone of the client.
StreamRegistry == "clone"

RegisteredForClient ==
    [n \in ToolNames |-> IF n \in {"search", "failing_tool", "slow_tool"} THEN n ELSE NoTool]

RegistryOfClient ==
    /\ handles = [h \in Handles |-> 1]
    /\ arcs = [a \in ArcIds |-> IF a = 1 THEN RegisteredForClient ELSE EmptyMap]
    /\ lastOp = [op |-> "clone", handle |-> "clone", name |-> NoTool,
                 tool |-> NoTool, ok |-> TRUE]

ClientStart ==
    /\ script \in {sq \in Scripts(MaxEvents) : CallCount(sq) <= MaxCalls}
    /\ pos = 0
    /\ streamEnded = FALSE
    /\ forwarded = <<>>
    /\ tasks = <<>>
    /\ invoked = <<>>
    /\ sent = <<>>
    /\ logged = <<>>

\* A client with two registered tools, whose owner goes on registering and
\* unregistering tools while a stream it created is being consumed.  The
\* stream carries tool calls with distinct invocation ids.
MaxSnapshotCalls == 2

RegisteredAtCall ==
    [n \in ToolNames |-> IF n \in {"search", "slow_tool"} THEN n ELSE NoTool]

RegistryAtCall ==
    /\ handles = [h \in Handles |-> 1]
    /\ arcs = [a \in ArcIds |-> IF a = 1 THEN RegisteredAtCall ELSE EmptyMap]
    /\ lastOp = [op |-> "clone", handle |-> "clone", name |-> NoTool,
                 tool |-> NoTool, ok |-> TRUE]

RECURSIVE SnapshotScripts(_)
SnapshotScripts(k) ==
    IF k = 0 THEN {<<>>}
    ELSE LET prev == SnapshotScripts(k - 1)
             calls == {ToolCallEvent("inv-1", "search"),
                       ToolCallEvent("inv-2", "failing_tool"),
                       ToolCallEvent("inv-3", "slow_tool")}
         IN prev \cup UNION {{sq \o <<e>> :
                                 e \in {x \in calls : \A n \in 1..Len(sq) : sq[n] # x}} :
                               sq \in prev}

SnapshotStart ==
    /\ script \in SnapshotScripts(MaxSnapshotCalls)
    /\ pos = 0
    /\ streamEnded = FALSE
    /\ forwarded = <<>>
    /\ tasks = <<>>
    /\ invoked = <<>>
    /\ sent = <<>>
    /\ logged = <<>>

\* OllamaClient::register_tool / unregister_tool on the caller's client.
LateTools == {"search_v2", "failing_tool"}
LateNames == {"search"}
ClientRegisters == \E tool \in LateTools : register_tool("client", tool)
ClientUnregisters == \E name \in LateNames : unregister_tool("client", name)

ClientIdle ==
    /\ script = <<>>
    /\ pos = 0
    /\ streamEnded = TRUE
    /\ forwarded = <<>>
    /\ tasks = <<>>
    /\ sent = <<>>
    /\ logged = <<>>

\* Variant: the next item is forwarded only when every spawned task is done.
StreamNext_WaitsForTools ==
    /\ ~streamEnded
    /\ pos <= Len(forwarded)
    /\ \A i \in 1..Len(tasks) : tasks[i].pc = "done"
    /\ IF pos < Len(script)
       THEN LET ev == script[pos + 1] IN
            /\ pos' = pos + 1
            /\ IF ev.kind = "ToolCall"
               THEN /\ tasks' = Append(tasks, NewTask(ev, Len(tasks) + 1))
                    /\ UNCHANGED forwarded
               ELSE /\ forwarded' = Append(forwarded, ev)
                    /\ UNCHANGED tasks
            /\ UNCHANGED streamEnded
       ELSE /\ streamEnded' = TRUE
            /\ UNCHANGED <<pos, forwarded, tasks>>
    /\ UNCHANGED <<script, invoked, sent, logged>>
    /\ UNCHANGED <<parserVars, registryVars, loopVars, otherVars>>

\* Variant: once a task holds an error result the stream ends early.
StreamNext_StopOnToolError ==
    /\ ~streamEnded
    /\ pos <= Len(forwarded)
    /\ IF pos < Len(script)
          /\ ~\E i \in 1..Len(tasks) : tasks[i].tool_result.kind = "error"
       THEN LET ev == script[pos + 1] IN
            /\ pos' = pos + 1
            /\ IF ev.kind = "ToolCall"
               THEN /\ tasks' = Append(tasks, NewTask(ev, Len(tasks) + 1))
                    /\ UNCHANGED forwarded
               ELSE /\ forwarded' = Append(forwarded, ev)
                    /\ UNCHANGED tasks
            /\ UNCHANGED streamEnded
       ELSE /\ streamEnded' = TRUE
            /\ UNCHANGED <<pos, forwarded, tasks>>
    /\ UNCHANGED <<script, invoked, sent, logged>>
    /\ UNCHANGED <<parserVars, registryVars, loopVars, otherVars>>

\* One run of the unfold closure, parser.next().await and the match on it,
\* up to its return or, in the ToolCall arm, up to tokio::spawn: from there
\* on the task runs on its own, and the item is returned afterwards.  The
\* closure is not entered again before it has returned (pos counts the items
\* taken from the parser, forwarded holds the items returned).
StreamNext ==
    /\ ~streamEnded
    /\ pos <= Len(forwarded)
    /\ IF pos < Len(script)
       THEN LET ev == script[pos + 1] IN
            /\ pos' = pos + 1
            /\ IF ev.kind = "ToolCall"
               THEN /\ tasks' = Append(tasks, NewTask(ev, Len(tasks) + 1))
                    /\ UNCHANGED forwarded
               ELSE /\ forwarded' = Append(forwarded, ev)
                    /\ UNCHANGED tasks
            /\ UNCHANGED streamEnded
       ELSE /\ streamEnded' = TRUE
            /\ UNCHANGED <<pos, forwarded, tasks>>
    /\ UNCHANGED <<script, invoked, sent, logged>>
    /\ UNCHANGED <<parserVars, registryVars, loopVars, otherVars>>

\* The ToolCall arm after the spawn: the closure returns the event, built
\* again from its invocation_id, name and input.
StreamYieldToolCall ==
    /\ ~streamEnded
    /\ pos > Len(forwarded)
    /\ LET ev == script[pos] IN
          forwarded' = Append(forwarded, ToolCallEvent(ev.invocation_id, ev.name))
    /\ UNCHANGED <<script, pos, streamEnded, tasks, invoked, sent, logged>>
    /\ UNCHANGED <<parserVars, registryVars, loopVars, otherVars>>

\* The spawned task up to its first await: look the tool up and call it.
TaskStart(i) ==
    /\ tasks[i].pc = "spawned"
    /\ LET t == tasks[i]
           tool == get_tool(handles, arcs, StreamRegistry, t.name)
           \* history only: what the caller's own client holds at this moment
           live == get_tool(handles, arcs, "client", t.name)
       IN IF tool # NoTool
          THEN /\ tasks' = [tasks EXCEPT ![i].pc = "running", ![i].tool = tool,
                                         ![i].work = "running", ![i].live = live]
               /\ invoked' = Append(invoked, [invocation_id |-> t.invocation_id,
                                              tool |-> tool, input |-> t.input,
                                              turn |-> 1, token |-> t.token,
                                              cancelled |-> t.cancelled])
          ELSE /\ tasks' = [tasks EXCEPT ![i].pc = "sending", ![i].live = live,
                                         ![i].tool_result = ErrorValue("not_found", t.name)]
               /\ UNCHANGED invoked
    /\ UNCHANGED <<script, pos, streamEnded, forwarded, sent, logged>>
    /\ UNCHANGED <<parserVars, registryVars, loopVars, otherVars>>

\* The tool's future completes before the deadline: Ok(Ok(_)) or Ok(Err(_)).
ToolReturns(i) ==
    /\ tasks[i].pc = "running"
    /\ Behaviour(tasks[i].tool) \in {"ok", "err"}
    /\ tasks' = [tasks EXCEPT ![i].pc = "sending", ![i].work = "ended",
                   ![i].tool_result = ToolOutcome(tasks[i].tool, tasks[i].name, tasks[i].input)]
    /\ UNCHANGED <<script, pos, streamEnded, forwarded, invoked, sent, logged>>
    /\ UNCHANGED <<parserVars, registryVars, loopVars, otherVars>>

\* Variant: the dispatcher signals the call's token when the deadline fires.
DeadlineFires_CancelsToken(i) ==
    /\ tasks[i].pc = "running"
    /\ Behaviour(tasks[i].tool) = "slow"
    /\ tasks' = [tasks EXCEPT ![i].pc = "sending", ![i].work = "abandoned",
                   ![i].cancelled = TRUE,
                   ![i].tool_result = ToolOutcome(tasks[i].tool, tasks[i].name, tasks[i].input)]
    /\ UNCHANGED <<script, pos, streamEnded, forwarded, invoked, sent, logged>>
    /\ UNCHANGED <<parserVars, registryVars, loopVars, otherVars>>

\* max_tool_runtime elapses first: Err(Elapsed).
DeadlineFires(i) ==
    /\ tasks[i].pc = "running"
    /\ Behaviour(tasks[i].tool) = "slow"
    /\ tasks' = [tasks EXCEPT ![i].pc = "sending", ![i].work = "abandoned",
                   ![i].tool_result = ToolOutcome(tasks[i].tool, tasks[i].name, tasks[i].input)]
    /\ UNCHANGED <<script, pos, streamEnded, forwarded, invoked, sent, logged>>
    /\ UNCHANGED <<parserVars, registryVars, loopVars, otherVars>>

\* Variant: a completion that arrives after the deadline replaces the
\* task's result.
AbandonedWorkEnds_ReplacesResult(i) ==
    /\ tasks[i].work = "abandoned"
    /\ tasks' = [tasks EXCEPT ![i].work = "ended",
                   ![i].tool_result = ToolValue(tasks[i].tool, tasks[i].input)]
    /\ UNCHANGED <<script, pos, streamEnded, forwarded, invoked, sent, logged>>
    /\ UNCHANGED <<parserVars, registryVars, loopVars, otherVars>>

\* Work the tool started goes on after timeout() returned Err(Elapsed) and
\* ends later: the match has taken the Err(_) arm, the tool's future is
\* gone, and the completion reaches neither tool_result nor the transport.
AbandonedWorkEnds(i) ==
    /\ tasks[i].work = "abandoned"
    /\ tasks' = [tasks EXCEPT ![i].work = "ended"]
    /\ UNCHANGED <<script, pos, streamEnded, forwarded, invoked, sent, logged>>
    /\ UNCHANGED <<parserVars, registryVars, loopVars, otherVars>>

\* Variant: a failed delivery is turned into an error item of the stream.
SendToolResult_InjectsError(i, accepted) ==
    /\ tasks[i].pc = "sending"
    /\ tasks' = [tasks EXCEPT ![i].pc = "done"]
    /\ IF accepted
       THEN /\ sent' = Append(sent, [invocation_id |-> tasks[i].invocation_id,
                                     result |-> tasks[i].tool_result,
                                     from |-> "task"])
            /\ UNCHANGED <<logged, forwarded>>
       ELSE /\ logged' = Append(logged, tasks[i].invocation_id)
            /\ forwarded' = Append(forwarded, PlainItem("StreamError"))
            /\ UNCHANGED sent
    /\ UNCHANGED <<script, pos, streamEnded, invoked>>
    /\ UNCHANGED <<parserVars, registryVars, loopVars, otherVars>>

\* Variant: the id is not the task's own copy but the one of the call
\* spawned last.
SendToolResult_SharedId(i, accepted) ==
    /\ tasks[i].pc = "sending"
    /\ tasks' = [tasks EXCEPT ![i].pc = "done"]
    /\ IF accepted
       THEN /\ sent' = Append(sent, [invocation_id |-> tasks[Len(tasks)].invocation_id,
                                     result |-> tasks[i].tool_result,
                                     from |-> "task"])
            /\ UNCHANGED logged
       ELSE /\ logged' = Append(logged, tasks[Len(tasks)].invocation_id)
            /\ UNCHANGED sent
    /\ UNCHANGED <<script, pos, streamEnded, forwarded, invoked>>
    /\ UNCHANGED <<parserVars, registryVars, loopVars, otherVars>>

\* client.send_tool_result(&invocation_id, tool_result).await; the transport
\* accepts the result or fails, and a failure is only logged.
SendToolResult(i, accepted) ==
    /\ tasks[i].pc = "sending"
    /\ tasks' = [tasks EXCEPT ![i].pc = "done"]
    /\ IF accepted
       THEN /\ sent' = Append(sent, [invocation_id |-> tasks[i].invocation_id,
                                     result |-> tasks[i].tool_result,
                                     from |-> "task"])
            /\ UNCHANGED logged
       ELSE /\ logged' = Append(logged, tasks[i].invocation_id)
            /\ UNCHANGED sent
    /\ UNCHANGED <<script, pos, streamEnded, forwarded, invoked>>
    /\ UNCHANGED <<parserVars, registryVars, loopVars, otherVars>>

\* OllamaClient::send_tool_result called by a holder of the client itself,
\* not by a task of the stream: the transport accepts the result, or fails
\* and the error goes back to the caller.
MaxDirectSends == 1
DirectIds == {"inv-1"}
DirectValue == [kind |-> "result", by |-> "caller", about |-> <<>>]
DirectSends == Cardinality({k \in 1..Len(sent) : sent[k].from = "caller"})

send_tool_result(invocation_id, result, accepted) ==
    /\ DirectSends < MaxDirectSends
    /\ IF accepted
       THEN sent' = Append(sent, [invocation_id |-> invocation_id, result |-> result,
                                  from |-> "caller"])
       ELSE UNCHANGED sent
    /\ UNCHANGED <<script, pos, streamEnded, forwarded, tasks, invoked, logged>>
    /\ UNCHANGED <<parserVars, registryVars, loopVars, otherVars>>

DirectSendStep ==
    \E id \in DirectIds, accepted \in BOOLEAN : send_tool_result(id, DirectValue, accepted)

TaskStartStep == \E i \in 1..Len(tasks) : TaskStart(i)
ToolReturnsStep == \E i \in 1..Len(tasks) : ToolReturns(i)
DeadlineStep == \E i \in 1..Len(tasks) : DeadlineFires(i)
SendStep == \E i \in 1..Len(tasks), accepted \in BOOLEAN : SendToolResult(i, accepted)
AbandonedStep == \E i \in 1..Len(tasks) : AbandonedWorkEnds(i)

ClientNext ==
    \/ StreamNext
    \/ StreamYieldToolCall
    \/ TaskStartStep
    \/ ToolReturnsStep
    \/ DeadlineStep
    \/ SendStep
    \/ AbandonedStep
    \/ DirectSendStep

\* The stream and its tasks, and the owner of the client changing its
\* registry meanwhile (the owner makes no call to send_tool_result here).
SnapshotNext ==
    \/ StreamNext
    \/ StreamYieldToolCall
    \/ TaskStartStep
    \/ ToolReturnsStep
    \/ DeadlineStep
    \/ SendStep
    \/ AbandonedStep
    \/ ClientRegisters
    \/ ClientUnregisters

-----------------------------------------------------------------------------
\* The conversation loop of examples/streaming_chat_tool_call.rs (main).

MaxTurns == 2       \* requests the loop may send
MaxTurnEvents == 2  \* events the server streams in one turn

\* FibonacciTool::fibonacci
RECURSIVE fibonacci(_)
fibonacci(n) == IF n = 0 THEN 0 ELSE IF n = 1 THEN 1 ELSE fibonacci(n - 1) + fibonacci(n - 2)

\* JSON values of the "n" argument: an integer or a string of digits.
IntArg(v) == [type |-> "int", v |-> v]
StrArg(v) == [type |-> "str", v |-> v]

\* FibonacciTool::parse_n: -1 stands for the Err("Missing or invalid parameter 'n'")
parse_n(arguments) ==
    IF arguments.type = "int" THEN (IF arguments.v >= 0 THEN arguments.v ELSE -1)
    ELSE arguments.v

\* FibonacciTool::call
FibonacciCall(arguments) ==
    LET n == parse_n(arguments) IN
    IF n >= 0 THEN [ok |-> TRUE, value |-> <<"result", fibonacci(n)>>]
    ELSE [ok |-> FALSE, value |-> <<"Tool error: Missing or invalid parameter 'n'">>]

\* tool_map of main: only "fibonacci" is present.
ToolMapHas(name) == name = "fibonacci"

\* FunctionInvocation::index is an Option<usize>: NoIndex is None.  Index 0
\* is the position of fibonacci in the tools list sent with each request.
NoIndex == -1

ToolCallFragment(id, index, name, arguments) ==
    [id |-> id, index |-> index, name |-> name, arguments |-> arguments]

Frag1 == ToolCallFragment("call_1", 0, "fibonacci", IntArg(10))
Frag1Later == ToolCallFragment("call_1", 0, "fibonacci", StrArg(11))
Frag2 == ToolCallFragment("call_2", NoIndex, "fibonacci", IntArg(-1))
Frag3 == ToolCallFragment("call_3", 0, "", StrArg(10))
Frag4 == ToolCallFragment("call_4", NoIndex, "", IntArg(10))

\* The tool_calls vectors a streamed message may carry.
CallLists ==
    {<<>>, <<Frag1>>, <<Frag1Later>>, <<Frag2>>, <<Frag3>>, <<Frag4>>,
     <<Frag1, Frag2>>, <<Frag3, Frag1>>, <<Frag1, Frag3>>, <<Frag1, Frag1Later>>}

\* Items the ChatStream yields to main.
MessageEvent(calls, done) ==
    [kind |-> "Message", content |-> <<"t">>, tool_calls |-> calls, done |-> done]
OtherEvent(kind) ==
    [kind |-> kind, content |-> <<>>, tool_calls |-> <<>>, done |-> FALSE]
LoopEvents ==
    {MessageEvent(calls, done) : calls \in CallLists, done \in BOOLEAN}
    \cup {OtherEvent("Error"), OtherEvent("Partial"), OtherEvent("StreamError")}

\* History entries.
UserMessage == [role |-> "user", content |-> <<"prompt">>, name |-> "", tool_call_id |-> ""]
AssistantMessage(content) ==
    [role |-> "assistant", content |-> content, name |-> "", tool_call_id |-> ""]
\* ToolCallResultMessage::new
ToolCallResultMessage(name, content, tool_call_id) ==
    [role |-> "tool", content |-> content, name |-> name, tool_call_id |-> tool_call_id]

\* The for loop over response.message.tool_calls: keep a fragment only when
\* its id has not been seen in this turn (HashSet::insert returned true).
RECURSIVE CollectCalls(_, _, _)
CollectCalls(calls, collected, seen) ==
    IF calls = <<>> THEN [collected |-> collected, seen |-> seen]
    ELSE LET tool_call == Head(calls)
             is_new == tool_call.id \notin seen
         IN CollectCalls(Tail(calls),
                         IF is_new THEN Append(collected, tool_call) ELSE collected,
                         seen \cup {tool_call.id})

\* The dispatch of one call: the ToolCallResult pushed to the history, and
\* whether the tool was invoked.
DispatchCall(call) ==
    IF ToolMapHas(call.name)
    THEN LET r == FibonacciCall(call.arguments) IN
         [invoked |-> TRUE,
          msg |-> IF r.ok
                  THEN ToolCallResultMessage(call.name, r.value, call.id)
                  ELSE ToolCallResultMessage(call.name,
                           <<"Tool invocation error">> \o r.value, call.id)]
    ELSE [invoked |-> FALSE,
          msg |-> ToolCallResultMessage(call.name, <<"Tool not found", call.name>>, call.id)]

\* The for loop over message_tool_calls: every branch of its body ends in
\* `break`, so only the first collected call is dispatched.
DispatchCollected(calls) ==
    IF calls = <<>> THEN <<>> ELSE <<DispatchCall(Head(calls))>>

\* The registry of the example's client when the loop starts: main built
\* the client and registered FibonacciTool on it; the registry was never
\* cloned.
RegisteredForExample ==
    [n \in ToolNames \cup {"fibonacci"} |->
        IF n = "fibonacci" THEN "fibonacci" ELSE NoTool]

RegistryOfExample ==
    /\ handles = [h \in Handles |-> IF h = "client" THEN 1 ELSE NoArc]
    /\ arcs = [a \in ArcIds |-> IF a = 1 THEN RegisteredForExample ELSE EmptyMap]
    /\ lastOp = [op |-> "register", handle |-> "client", name |-> "fibonacci",
                 tool |-> "fibonacci", ok |-> TRUE]

LoopIdle ==
    /\ lpc = "idle"
    /\ history = <<>>
    /\ requests = <<>>
    /\ turnEvents = 0
    /\ assistant_buffer = <<>>
    /\ message_tool_calls = <<>>
    /\ seen_tool_call_ids = {}
    /\ tool_was_called = FALSE
    /\ turn_fragments = <<>>

LoopStart ==
    /\ lpc = "sending"
    /\ history = <<UserMessage>>
    /\ requests = <<>>
    /\ turnEvents = 0
    /\ assistant_buffer = <<>>
    /\ message_tool_calls = <<>>
    /\ seen_tool_call_ids = {}
    /\ tool_was_called = FALSE
    /\ turn_fragments = <<>>
    /\ invoked = <<>>

\* Top of the loop: build the request from the history and open the stream.
SendRequest ==
    /\ lpc = "sending"
    /\ Len(requests) < MaxTurns
    /\ requests' = Append(requests, history)
    /\ lpc' = "draining"
    /\ turnEvents' = 0
    /\ tool_was_called' = FALSE
    /\ assistant_buffer' = <<>>
    /\ message_tool_calls' = <<>>
    /\ seen_tool_call_ids' = {}
    /\ turn_fragments' = <<>>
    /\ UNCHANGED <<history, invoked>>
    /\ UNCHANGED <<parserVars, registryVars, clientVars, otherVars>>

\* client.chat_stream(request).await? fails: main returns the error.
SendRequestFails ==
    /\ lpc = "sending"
    /\ Len(requests) < MaxTurns
    /\ lpc' = "failed"
    /\ UNCHANGED <<history, requests, turnEvents, assistant_buffer,
                   message_tool_calls, seen_tool_call_ids, tool_was_called,
                   turn_fragments, invoked>>
    /\ UNCHANGED <<parserVars, registryVars, clientVars, otherVars>>

\* Variant: every chunk of the assistant message is pushed to the history,
\* not only the accumulated message on done.
DrainEvent_PushEveryChunk(ev) ==
    /\ lpc = "draining"
    /\ turnEvents < MaxTurnEvents
    /\ turnEvents' = turnEvents + 1
    /\ IF ev.kind # "Message"
       THEN UNCHANGED <<lpc, history, assistant_buffer, message_tool_calls,
                        seen_tool_call_ids, tool_was_called, turn_fragments, invoked>>
       ELSE LET c == CollectCalls(ev.tool_calls, message_tool_calls, seen_tool_call_ids)
                buf == assistant_buffer \o ev.content
                dispatched == DispatchCollected(c.collected)
            IN /\ assistant_buffer' = buf
               /\ turn_fragments' = turn_fragments \o ev.tool_calls
               /\ message_tool_calls' = c.collected
               /\ seen_tool_call_ids' = c.seen
               /\ IF ~ev.done
                  THEN /\ history' = Append(history, AssistantMessage(ev.content))
                       /\ UNCHANGED <<lpc, tool_was_called, invoked>>
                  ELSE /\ history' = Append(history, AssistantMessage(buf))
                                       \o [k \in 1..Len(dispatched) |-> dispatched[k].msg]
                       /\ invoked' = invoked \o
                            (IF dispatched # <<>> /\ dispatched[1].invoked
                             THEN <<[invocation_id |-> c.collected[1].id,
                                     tool |-> c.collected[1].name,
                                     input |-> c.collected[1].arguments,
                                     turn |-> Len(requests),
                                     token |-> Len(invoked) + 1,
                                     cancelled |-> FALSE]>>
                             ELSE <<>>)
                       /\ tool_was_called' = (dispatched # <<>>)
                       /\ lpc' = IF c.collected = <<>> THEN "finished" ELSE "sending"
    /\ UNCHANGED requests
    /\ UNCHANGED <<parserVars, registryVars, clientVars, otherVars>>

\* Variant: the loop gives up after its second round, dispatched call or not.
DrainEvent_RoundCap(ev) ==
    /\ lpc = "draining"
    /\ turnEvents < MaxTurnEvents
    /\ turnEvents' = turnEvents + 1
    /\ IF ev.kind # "Message"
       THEN UNCHANGED <<lpc, history, assistant_buffer, message_tool_calls,
                        seen_tool_call_ids, tool_was_called, turn_fragments, invoked>>
       ELSE LET c == CollectCalls(ev.tool_calls, message_tool_calls, seen_tool_call_ids)
                buf == assistant_buffer \o ev.content
                dispatched == DispatchCollected(c.collected)
            IN /\ assistant_buffer' = buf
               /\ turn_fragments' = turn_fragments \o ev.tool_calls
               /\ message_tool_calls' = c.collected
               /\ seen_tool_call_ids' = c.seen
               /\ IF ~ev.done
                  THEN UNCHANGED <<lpc, history, tool_was_called, invoked>>
                  ELSE /\ history' = Append(history, AssistantMessage(buf))
                                       \o [k \in 1..Len(dispatched) |-> dispatched[k].msg]
                       /\ invoked' = invoked \o
                            (IF dispatched # <<>> /\ dispatched[1].invoked
                             THEN <<[invocation_id |-> c.collected[1].id,
                                     tool |-> c.collected[1].name,
                                     input |-> c.collected[1].arguments,
                                     turn |-> Len(requests),
                                     token |-> Len(invoked) + 1,
                                     cancelled |-> FALSE]>>
                             ELSE <<>>)
                       /\ tool_was_called' = (dispatched # <<>>)
                       /\ lpc' = IF c.collected = <<>> \/ Len(requests) >= 2
                                 THEN "finished" ELSE "sending"
    /\ UNCHANGED requests
    /\ UNCHANGED <<parserVars, registryVars, clientVars, otherVars>>

\* One iteration of `while let Some(event_res) = stream.next().await`.
DrainEvent(ev) ==
    /\ lpc = "draining"
    /\ turnEvents < MaxTurnEvents
    /\ turnEvents' = turnEvents + 1
    /\ IF ev.kind # "Message"
       THEN UNCHANGED <<lpc, history, assistant_buffer, message_tool_calls,
                        seen_tool_call_ids, tool_was_called, turn_fragments, invoked>>
       ELSE LET c == CollectCalls(ev.tool_calls, message_tool_calls, seen_tool_call_ids)
                buf == assistant_buffer \o ev.content
                dispatched == DispatchCollected(c.collected)
            IN /\ assistant_buffer' = buf
               /\ turn_fragments' = turn_fragments \o ev.tool_calls
               /\ message_tool_calls' = c.collected
               /\ seen_tool_call_ids' = c.seen
               /\ IF ~ev.done
                  THEN UNCHANGED <<lpc, history, tool_was_called, invoked>>
                  ELSE /\ history' = Append(history, AssistantMessage(buf))
                                       \o [k \in 1..Len(dispatched) |-> dispatched[k].msg]
                       /\ invoked' = invoked \o
                            (IF dispatched # <<>> /\ dispatched[1].invoked
                             THEN <<[invocation_id |-> c.collected[1].id,
                                     tool |-> c.collected[1].name,
                                     input |-> c.collected[1].arguments,
                                     turn |-> Len(requests),
                                     token |-> Len(invoked) + 1,
                                     cancelled |-> FALSE]>>
                             ELSE <<>>)
                       /\ tool_was_called' = (dispatched # <<>>)
                       /\ lpc' = IF c.collected = <<>> THEN "finished" ELSE "sending"
    /\ UNCHANGED requests
    /\ UNCHANGED <<parserVars, registryVars, clientVars, otherVars>>

\* Variant: the end of the stream is taken as the completion of the turn:
\* the accumulated assistant message is pushed and the collected calls are
\* dispatched.
StreamExhausted_Flushes ==
    /\ lpc = "draining"
    /\ LET dispatched == DispatchCollected(message_tool_calls)
       IN /\ history' = Append(history, AssistantMessage(assistant_buffer))
                            \o [k \in 1..Len(dispatched) |-> dispatched[k].msg]
          /\ invoked' = invoked \o
               (IF dispatched # <<>> /\ dispatched[1].invoked
                THEN <<[invocation_id |-> message_tool_calls[1].id,
                        tool |-> message_tool_calls[1].name,
                        input |-> message_tool_calls[1].arguments,
                        turn |-> Len(requests),
                        token |-> Len(invoked) + 1,
                        cancelled |-> FALSE]>>
                ELSE <<>>)
          /\ tool_was_called' = (dispatched # <<>>)
          /\ lpc' = IF message_tool_calls = <<>> THEN "finished" ELSE "sending"
    /\ UNCHANGED <<requests, turnEvents, assistant_buffer, message_tool_calls,
                   seen_tool_call_ids, turn_fragments>>
    /\ UNCHANGED <<parserVars, registryVars, clientVars, otherVars>>

\* stream.next() returned None: the while loop ends with tool_was_called
\* false, so the outer loop breaks.
StreamExhausted ==
    /\ lpc = "draining"
    /\ lpc' = "finished"
    /\ UNCHANGED <<history, requests, turnEvents, assistant_buffer,
                   message_tool_calls, seen_tool_call_ids, tool_was_called,
                   turn_fragments, invoked>>
    /\ UNCHANGED <<parserVars, registryVars, clientVars, otherVars>>

DrainStep == \E ev \in LoopEvents : DrainEvent(ev)

LoopNext == SendRequest \/ SendRequestFails \/ DrainStep \/ StreamExhausted

-----------------------------------------------------------------------------
ParserIdle ==
    /\ input = <<>>
    /\ rest = <<>>
    /\ ready = <<>>
    /\ closed = TRUE
    /\ buffer = <<>>
    /\ trace = <<>>
    /\ splitMidLine = FALSE

\* No legacy parser task and an unconfigured MockTransport (MockTransport::new).
\* An Option is a sequence of length at most one: None is <<>>.
NoResponse == <<>>

LegacyIdle == wake = "runnable"

TransportIdle ==
    /\ chat_stream_events = <<>>
    /\ generate_stream_bytes = <<>>
    /\ raw_chat_stream_strings = <<>>
    /\ non_streaming_http_response = NoResponse
    /\ chat_waiting = 0
    /\ responses = <<>>

OthersIdle == LegacyIdle /\ TransportIdle

ParserInit == ParserStart /\ RegistryIdle /\ ClientIdle /\ LoopIdle /\ invoked = <<>> /\ OthersIdle
RegistryInit == ParserIdle /\ RegistryIdle /\ ClientIdle /\ LoopIdle /\ invoked = <<>> /\ OthersIdle
ClientInit == ParserIdle /\ RegistryOfClient /\ ClientStart /\ LoopIdle /\ OthersIdle
LoopInit == ParserIdle /\ RegistryOfExample /\ ClientIdle /\ LoopStart /\ OthersIdle

FaultyInit == FaultyStart /\ RegistryIdle /\ ClientIdle /\ LoopIdle /\ invoked = <<>> /\ OthersIdle

LinesInit == LinesStart /\ RegistryIdle /\ ClientIdle /\ LoopIdle /\ invoked = <<>> /\ OthersIdle

DocsInit == DocsStart /\ RegistryIdle /\ ClientIdle /\ LoopIdle /\ invoked = <<>> /\ OthersIdle

LegacyInit == LegacyStart /\ RegistryIdle /\ ClientIdle /\ LoopIdle /\ invoked = <<>> /\ TransportIdle

TransportInit ==
    ParserIdle /\ RegistryIdle /\ ClientIdle /\ LoopIdle /\ invoked = <<>> /\ OthersIdle

Spec == ParserInit /\ [][ParserNext]_vars
SpecTransport == TransportInit /\ [][TransportNext]_vars
SpecLegacy == LegacyInit /\ [][LegacyNext]_vars
SpecDocs == DocsInit /\ [][ParserNext]_vars
SpecLines == LinesInit /\ [][ParserNext]_vars
SpecFaulty == FaultyInit /\ [][FaultyNext]_vars
\* The consumer keeps pulling (StreamExt::next in a while-let loop): weak
\* fairness of PollNext, WF_vars(PollNext), written out with its enabling
\* condition computed from poll_next (a pull that returns Pending and leaves
\* the buffer as it was is no step).
PollEnabled ==
    /\ EndCount < MaxEndPolls
    /\ Len(trace) < Len(input) + MaxEndPolls + MaxFaults
    /\ LET r == poll_next(buffer, ready, closed) IN
          r.res.kind # "Pending" \/ r.buf # buffer \/ r.q # ready
PollFairness == []<>(~PollEnabled) \/ []<><<PollNext>>_vars
SpecFaultyLive == SpecFaulty /\ PollFairness
SpecRegistry == RegistryInit /\ [][RegistryNext]_vars
SpecClient == ClientInit /\ [][ClientNext]_vars
SnapshotInit == ParserIdle /\ RegistryAtCall /\ SnapshotStart /\ LoopIdle /\ OthersIdle
SpecSnapshot == SnapshotInit /\ [][SnapshotNext]_vars
SpecLoop == LoopInit /\ [][LoopNext]_vars
\* Both tool dispatchers: a run is either a chat_stream of the client or a
\* run of the conversation loop.
SpecTools == (ClientInit \/ LoopInit) /\ [][ClientNext \/ LoopNext]_vars

-----------------------------------------------------------------------------
\* Reference notions used by the parser properties.

\* The events yielded before the parser first reported end.
EventsOf(tr) ==
    IF \E i \in 1..Len(tr) : tr[i].kind = "End"
    THEN SubSeq(tr, 1, (CHOOSE i \in 1..Len(tr) :
                          tr[i].kind = "End" /\ \A j \in 1..(i - 1) : tr[j].kind # "End") - 1)
    ELSE tr

\* The run in which the source delivers the same bytes as one single chunk
\* and then completes.
RECURSIVE WholeRun(_, _, _)
WholeRun(buf, q, fuel) ==
    LET r == poll_next(buf, q, TRUE) IN
    IF r.res.kind = "End" \/ fuel = 0 THEN <<>>
    ELSE <<r.res>> \o WholeRun(r.buf, r.q, fuel - 1)

OneChunk(bytes) == IF bytes = <<>> THEN <<>> ELSE <<bytes>>

\* The non-blank newline-terminated lines of a byte sequence, trimmed, in order.
RECURSIVE LinesOf(_)
LinesOf(bytes) ==
    IF \A i \in 1..Len(bytes) : bytes[i] # NL THEN <<>>
    ELSE LET k == CHOOSE i \in 1..Len(bytes) :
                     bytes[i] = NL /\ \A j \in 1..(i - 1) : bytes[j] # NL
             line == Trim(FromUtf8Lossy(SubSeq(bytes, 1, k - 1)))
             tail == LinesOf(SubSeq(bytes, k + 1, Len(bytes)))
         IN IF line = <<>> THEN tail ELSE <<line>> \o tail

\* The bytes after the last newline.
RECURSIVE Residue(_)
Residue(bytes) ==
    IF \A i \in 1..Len(bytes) : bytes[i] # NL THEN bytes
    ELSE Residue(Tail(bytes))

IsFlushPartial(item) == item.kind = "Partial" /\ item.diag = NoDiag

\* C1: once the source has completed and the parser has reported end, the
\* events yielded are those of the run that delivers the same bytes in one
\* chunk, whatever the chunk boundaries were (also inside a line).
C1_ChunkIndependence ==
    EndCount >= 1 =>
        EventsOf(trace) = WholeRun(<<>>, OneChunk(input), Len(input) + 1)

C1_Witness ==
    /\ EndCount >= 1
    /\ splitMidLine
    /\ Len(EventsOf(trace)) >= 2
    /\ \E i \in 1..Len(trace) : trace[i].kind = "Message"

\* C2: at source completion a non-blank residue is yielded as exactly one
\* Partial carrying it, and the pull after it reports end; an empty or
\* whitespace-only residue gives end with no extra event.
C2_ResidueFlushedOnce ==
    LET residue == FromUtf8Lossy(Residue(input))
        flushes == {i \in 1..Len(trace) : IsFlushPartial(trace[i])}
    IN /\ \A i \in flushes : i < Len(trace) => trace[i + 1].kind = "End"
       /\ Trim(residue) = <<>> => flushes = {}
       /\ (EndCount >= 1 /\ Trim(residue) # <<>>) =>
             /\ Cardinality(flushes) = 1
             /\ EventsOf(trace) # <<>>
             /\ EventsOf(trace)[Len(EventsOf(trace))] = PartialEvent(residue, NoDiag)

C2_Witness ==
    /\ EndCount >= 1
    /\ \E i \in 1..Len(trace) : IsFlushPartial(trace[i])
    /\ Len(LinesOf(input)) >= 1

C2_WitnessBlank ==
    /\ EndCount >= 1
    /\ Residue(input) # <<>>
    /\ Trim(FromUtf8Lossy(Residue(input))) = <<>>

\* C3: a newline-terminated line that fails the payload decode but decodes
\* as the error envelope yields an Error event with the envelope's string.
C3_EnvelopeYieldsError ==
    LET lines == LinesOf(input) IN
    \A i \in 1..Len(trace) :
        (/\ i <= Len(lines)
         /\ ~DecodeM(lines[i]).ok
         /\ DecodeOllamaError(lines[i]).ok)
        => trace[i] = FromError(DecodeOllamaError(lines[i]).error)

C3_Witness ==
    /\ \E i \in 1..Len(trace) : trace[i].kind = "Error" /\ trace[i].text = ErrText
    /\ splitMidLine

\* C4: a newline-terminated line failing both decodes yields a Partial with
\* the (trimmed) line text and the failure description of the payload decode.
C4_DoubleFailureYieldsPartial ==
    LET lines == LinesOf(input) IN
    \A i \in 1..Len(trace) :
        (/\ i <= Len(lines)
         /\ ~DecodeM(lines[i]).ok
         /\ ~DecodeOllamaError(lines[i]).ok)
        => trace[i] = PartialEvent(lines[i], DecodeM(lines[i]).error)

C4_Witness ==
    \E i \in 1..Len(trace) :
        /\ trace[i].kind = "Partial"
        /\ trace[i].diag # NoDiag
        /\ Len(trace[i].text) >= 2

\* C11: an error of the byte source is yielded as a terminal item: the items
\* returned after it are end reports only, no event and no second error.
C11_SourceErrorIsTerminal ==
    \A i \in 1..Len(trace), j \in 1..Len(trace) :
        (trace[i].kind = "SourceError" /\ i < j) => trace[j].kind = "End"

\* C12: a malformed line (Partial) or a server error line (Error) never ends
\* the sequence: every later line of the source is still classified and
\* yielded, and end is not reported before all of them were.
C12_BadLineNeverAborts ==
    LET lines == LinesOf(input) IN
    \A i \in 1..Len(trace) :
        (i <= Len(lines) /\ trace[i].kind \in {"Partial", "Error"}) =>
            \A j \in (i + 1)..Len(lines) :
                /\ j <= Len(trace) => trace[j] = ClassifyLine(lines[j])
                /\ EndCount >= 1 => j <= Len(EventsOf(trace))

C12_Witness ==
    /\ EndCount >= 1
    /\ \E i \in 1..Len(trace), j \in 1..Len(trace) :
          /\ i < j
          /\ trace[i].kind \in {"Partial", "Error"}
          /\ trace[i].diag # NoDiag \/ trace[i].kind = "Error"
          /\ trace[j].kind = "Message"

\* C13: events come in strict line order: the i-th item returned is the
\* classification of the i-th non-blank newline-terminated line of the byte
\* stream, and beyond the lines only the end-of-stream flush and end reports
\* follow; also when a chunk brought several lines handed out pull by pull.
C13_StrictLineOrder ==
    LET lines == LinesOf(input) IN
    \A i \in 1..Len(trace) :
        IF i <= Len(lines) THEN trace[i] = ClassifyLine(lines[i])
        ELSE trace[i].kind = "End" \/ IsFlushPartial(trace[i])

\* Two different events were handed out and a further complete line, which
\* came in with them, still waits in the buffer.
C13_Witness ==
    /\ Len(trace) >= 2
    /\ trace[1] # trace[2]
    /\ trace[2].kind \in {"Message", "Partial"}
    /\ parse_lines(buffer).ev.kind # "None"

\* C14: the event sequence terminates iff the source terminates: end is
\* reported only once the source has completed and handed over everything,
\* never while it is merely not ready or has only failed; and once the source
\* has completed, a consumer that keeps pulling is told end.
C14_TerminatesIffSource ==
    /\ [](EndCount >= 1 => (closed /\ ready = <<>> /\ rest = <<>>))
    /\ (closed ~> EndCount >= 1)

C14_Witness ==
    /\ closed
    /\ EndCount >= 1
    /\ \E i \in 1..Len(trace) : trace[i].kind = "SourceError"
    /\ \E i \in 1..Len(trace) : trace[i].kind \in {"Message", "Partial", "Error"}

\* Newline-terminated lines of the input that are empty or whitespace only.
BlankLines(bytes) ==
    Cardinality({i \in 1..Len(bytes) : bytes[i] = NL}) - Len(LinesOf(bytes))

\* C19: blank lines are never surfaced: no event carries blank text, and the
\* events yielded are as many as the non-blank lines (plus the flush of a
\* non-blank residue), wherever and however many blank lines the stream has.
C19_BlankLinesSkipped ==
    LET lines == LinesOf(input)
        flush == IF Trim(FromUtf8Lossy(Residue(input))) # <<>> THEN 1 ELSE 0
        events == {i \in 1..Len(trace) : trace[i].kind # "End"}
    IN /\ \A i \in events : Trim(trace[i].text) # <<>>
       /\ Cardinality(events) <= Len(lines) + flush
       /\ EndCount >= 1 => Cardinality(events) = Len(lines) + flush

\* A stream with blank lines in a row and a real line was read to its end.
C19_Witness ==
    /\ EndCount >= 1
    /\ BlankLines(input) >= 2
    /\ \E i \in 1..(Len(input) - 1) :
          input[i] = NL /\ input[i + 1] \in {NL, SP}
    /\ \E i \in 1..Len(trace) : trace[i].kind \in {"Message", "Error", "Partial"}

\* C20: the byte source is polled only when the buffer holds no complete
\* non-blank line: a pull that the buffer can answer yields that line's event
\* and takes nothing from the source, and whenever a pull takes a chunk from
\* the source the buffer held no such line.
C20_SourcePolledOnlyWhenStarved ==
    [][/\ (parse_lines(buffer).ev.kind # "None"
           /\ (trace' # trace \/ buffer' # buffer))
          => /\ ready' = ready
             /\ trace' = Append(trace, parse_lines(buffer).ev)
             /\ buffer' = parse_lines(buffer).buf
       /\ Len(ready') < Len(ready) => parse_lines(buffer).ev.kind = "None"]_vars

\* One event was handed out, the next line waits in the buffer and the
\* source already holds a further chunk ready.
C20_Witness ==
    /\ Len(trace) >= 1
    /\ ready # <<>>
    /\ parse_lines(buffer).ev.kind # "None"

\* C21: classification is exclusive and the primary decode wins: every
\* non-blank line yields exactly one event, of exactly one kind, and a line
\* the payload decoder accepts yields Message, also when the envelope
\* decoder would accept it too.
C21_PrimaryDecodeWins ==
    LET lines == LinesOf(input)
        events == {i \in 1..Len(trace) : trace[i].kind # "End"}
    IN /\ \A i \in events :
             /\ i <= Len(lines)
             /\ trace[i].kind \in {"Message", "Error", "Partial"}
             /\ trace[i].kind = "Message" <=> DecodeM(lines[i]).ok
             /\ trace[i].kind = "Error"
                   <=> (~DecodeM(lines[i]).ok /\ DecodeOllamaError(lines[i]).ok)
             /\ DecodeM(lines[i]).ok => trace[i] = FromMessage(DecodeM(lines[i]).value)
       /\ EndCount >= 1 => Cardinality(events) = Len(lines)

\* A line both decoders accept was yielded as a Message.
C21_Witness ==
    /\ EndCount >= 1
    /\ \E i \in 1..Len(trace) :
          /\ trace[i].kind = "Message"
          /\ DecodeOllamaError(trace[i].text).ok
    /\ \E i \in 1..Len(trace) : trace[i].kind = "Error"

\* The chunks in a queue, joined.
RECURSIVE Concat(_)
Concat(q) == IF q = <<>> THEN <<>> ELSE Head(q) \o Concat(Tail(q))

\* The bytes the parser has taken from the source so far.
Received == SubSeq(input, 1, Len(input) - Len(rest) - Len(Concat(ready)))

\* C26: every received byte is attributed exactly once: the received bytes
\* are the bytes of the lines already turned into events or skipped as
\* blank, followed by exactly the buffer; the line events are the
\* classifications of those lines, once each; and when the source has
\* completed and the parser is through, the buffer is empty and a non-blank
\* residue has been yielded.
C26_BytesAttributedOnce ==
    LET flushed == \E i \in 1..Len(trace) : IsFlushPartial(trace[i])
        through == flushed \/ EndCount >= 1
        n == Len(Received) - Len(buffer)
        attributed == SubSeq(Received, 1, n)
        lines == LinesOf(attributed)
        lineEvents == SelectSeq(trace, LAMBDA e : e.kind # "End" /\ ~IsFlushPartial(e))
    IN /\ n >= 0
       /\ SubSeq(Received, n + 1, Len(Received)) = buffer
       /\ ~through => (attributed = <<>> \/ attributed[n] = NL)
       /\ lineEvents = [i \in 1..Len(lines) |-> ClassifyLine(lines[i])]
       /\ through =>
             /\ buffer = <<>>
             /\ Received = input
             /\ Trim(FromUtf8Lossy(Residue(input))) # <<>> => flushed

\* Lines were turned into events while later bytes waited in the buffer, and
\* the run ended with a flushed residue.
C26_Witness ==
    /\ EndCount >= 1
    /\ \E i \in 1..Len(trace) : IsFlushPartial(trace[i])
    /\ \E i \in 1..Len(trace) : trace[i].kind = "Message"
    /\ splitMidLine

\* C27: the end-of-stream leftover is never decoded: whatever it is, also a
\* valid payload or error envelope lacking only the newline, it is yielded
\* as a Partial with its text and no diagnostic; a Partial of a
\* newline-terminated line always has a diagnostic.
C27_LeftoverNeverDecoded ==
    LET lines == LinesOf(input)
        residue == FromUtf8Lossy(Residue(input))
    IN /\ \A i \in 1..Len(trace) :
             IF i <= Len(lines)
             THEN trace[i].kind = "Partial" => trace[i].diag # NoDiag
             ELSE \/ trace[i].kind = "End"
                  \/ /\ trace[i].kind = "Partial"
                     /\ trace[i].diag = NoDiag
                     /\ Trim(trace[i].text) = Trim(residue)
       /\ (EndCount >= 1 /\ Trim(residue) # <<>>) =>
             /\ Len(trace) > Len(lines)
             /\ trace[Len(lines) + 1].kind = "Partial"

\* The leftover was a valid payload, behind a line that failed both decodes.
C27_Witness ==
    /\ EndCount >= 1
    /\ DecodeM(Trim(FromUtf8Lossy(Residue(input)))).ok
    /\ \E i \in 1..Len(trace) : trace[i].kind = "Partial" /\ trace[i].diag # NoDiag
    /\ \E i \in 1..Len(trace) : IsFlushPartial(trace[i]) /\ DecodeM(Trim(trace[i].text)).ok

\* The leftover was a valid error envelope.
C27_WitnessEnvelope ==
    /\ EndCount >= 1
    /\ \E i \in 1..Len(trace) :
          IsFlushPartial(trace[i]) /\ DecodeOllamaError(Trim(trace[i].text)).ok

\* C28: the text of a Partial never has leading or trailing whitespace, for
\* a newline-terminated line and for the leftover flushed at end of stream.
C28_PartialTextTrimmed ==
    \A i \in 1..Len(trace) :
        trace[i].kind = "Partial" => trace[i].text = Trim(trace[i].text)

\* The response a step adds to the log, if it adds one.
Answered == {responses'[k] : k \in (Len(responses) + 1)..Len(responses')}

\* The step answers an /api/chat request from the raw strings (the request
\* returned under its first lock) or from the events (a waiting request).
AnswersFromRaw(e) ==
    e.call = "send_http_stream_request" /\ e.url = "/api/chat"
    /\ chat_waiting' = chat_waiting
AnswersFromEvents(e) ==
    e.call = "send_http_stream_request" /\ e.url = "/api/chat"
    /\ chat_waiting' = chat_waiting - 1

\* The non-streaming half of C30: a send_http_request returns the
\* configured response and leaves none behind, so that it is the first call
\* after the configuration that gets it and every later one gets a response
\* with no body.
HttpOnce(e) ==
    e.call = "send_http_request" =>
        /\ e.response = IF non_streaming_http_response # <<>>
                        THEN Head(non_streaming_http_response)
                        ELSE EmptyResponse
        /\ non_streaming_http_response' = NoResponse

\* What is configured for /api/chat when the step starts.
ChatLinesConfigured ==
    IF raw_chat_stream_strings # <<>> THEN RawLines(raw_chat_stream_strings)
    ELSE EventLines(chat_stream_events)

\* C30 as stated: configured data is handed out at most once: a
\* send_http_request returns the configured response and later calls one
\* with no body; an /api/chat stream request gets the configured chat stream
\* lines and leaves nothing configured for /api/chat behind, so that a later
\* request gets an empty stream.  (Requests during which another holder
\* configured raw strings are left aside.)
C30_ConfiguredDataOnce ==
    [][\A e \in Answered :
          /\ responses' = Append(responses, e)
          /\ HttpOnce(e)
          /\ (AnswersFromRaw(e)
                \/ (AnswersFromEvents(e) /\ raw_chat_stream_strings = <<>>)) =>
                /\ e.items = ChatLinesConfigured
                /\ raw_chat_stream_strings' = <<>>
                /\ chat_stream_events' = <<>>]_vars

\* C30, amended: as above, except that when both raw strings and events are
\* configured the request gets only the raw strings and leaves the events
\* in place; the next request, finding no raw strings, gets the events and
\* leaves nothing behind.
C30_ConfiguredDataOnceRawFirst ==
    [][\A e \in Answered :
          /\ responses' = Append(responses, e)
          /\ HttpOnce(e)
          /\ AnswersFromRaw(e) =>
                /\ raw_chat_stream_strings # <<>>
                /\ e.items = RawLines(raw_chat_stream_strings)
                /\ raw_chat_stream_strings' = <<>>
                /\ chat_stream_events' = chat_stream_events
          /\ (AnswersFromEvents(e) /\ raw_chat_stream_strings = <<>>) =>
                /\ e.items = EventLines(chat_stream_events)
                /\ raw_chat_stream_strings' = <<>>
                /\ chat_stream_events' = <<>>]_vars

\* Raw strings and events were both configured: the first /api/chat request
\* got the raw lines, the second the events, and nothing is left for a
\* third; of two send_http_request calls the first got the configured body.
C30_Witness ==
    /\ Len(responses) = 4
    /\ chat_waiting = 0
    /\ responses[1].url = "/api/chat"
    /\ responses[1].items = RawLines(<<MsgDoc, PlainText>>)
    /\ responses[2].url = "/api/chat"
    /\ responses[2].items = EventLines(<<FromError(ErrText), FromMessage(MsgDoc)>>)
    /\ responses[3].call = "send_http_request"
    /\ responses[3].response = [body |-> <<"tags">>]
    /\ responses[4].call = "send_http_request"
    /\ responses[4].response = EmptyResponse
    /\ raw_chat_stream_strings = <<>>
    /\ chat_stream_events = <<>>

\* C22: in the legacy StreamParser a pull never stalls: a chunk that does not
\* complete a line leaves the pulling task able to run again and fetch the
\* next chunk, so it is never parked with nobody holding its waker.
C22_LegacyPullNeverStalls ==
    wake # "lost"

\* C5: a register_tool call that returns an error leaves the registry
\* untouched: get_tool(name) returns the same tool object before and after.
C5_FailedRegisterLeavesRegistry ==
    [][\A h \in Handles, tool \in ToolObjects :
          (register_tool(h, tool) /\ ~lastOp'.ok)
          => get_tool(handles', arcs', h, NameOf(tool))
               = get_tool(handles, arcs, h, NameOf(tool))]_vars

\* The tools a registry value holds, as its lookups show them.
ViewOf(hs, as, h) == [n \in ToolNames |-> get_tool(hs, as, h, n)]

\* C17: unregister_tool on a name that is not registered returns an error
\* and changes no lookup; on a registered name it succeeds, get_tool(name)
\* then returns none while the other names keep their tools, and a
\* register_tool of that name made next on the same value succeeds.
C17_UnregisterContract ==
    [][/\ \A h \in Handles, name \in ToolNames :
            unregister_tool(h, name) =>
                IF get_tool(handles, arcs, h, name) = NoTool
                THEN /\ ~lastOp'.ok
                     /\ ViewOf(handles', arcs', h) = ViewOf(handles, arcs, h)
                ELSE /\ lastOp'.ok
                     /\ ViewOf(handles', arcs', h)
                          = [ViewOf(handles, arcs, h) EXCEPT ![name] = NoTool]
       /\ \A h \in Handles, tool \in ToolObjects :
            (/\ lastOp = [op |-> "unregister", handle |-> h, name |-> NameOf(tool),
                          tool |-> NoTool, ok |-> TRUE]
             /\ register_tool(h, tool))
            => /\ lastOp'.ok
               /\ get_tool(handles', arcs', h, NameOf(tool)) = tool]_vars

\* A registered tool was removed from a registry that holds another tool.
C17_Witness ==
    /\ lastOp.op = "unregister"
    /\ lastOp.ok
    /\ get_tool(handles, arcs, lastOp.handle, lastOp.name) = NoTool
    /\ \E n \in ToolNames : get_tool(handles, arcs, lastOp.handle, n) # NoTool

\* C18: a register_tool or unregister_tool on one registry value changes no
\* lookup of any other value: a clone keeps showing exactly the tools it had
\* when it was taken.
C18_ClonesIsolated ==
    [][\A h \in Handles, g \in Handles :
          (/\ h # g
           /\ handles[g] # NoArc
           /\ \/ \E tool \in ToolObjects : register_tool(h, tool)
              \/ \E name \in ToolNames : unregister_tool(h, name))
          => ViewOf(handles', arcs', g) = ViewOf(handles, arcs, g)]_vars

\* Two values that once shared a map now show different tools.
C18_Witness ==
    /\ \A h \in Handles : handles[h] # NoArc
    /\ handles["client"] # handles["clone"]
    /\ ViewOf(handles, arcs, "client") # ViewOf(handles, arcs, "clone")
    /\ ViewOf(handles, arcs, "clone") # EmptyMap
    /\ lastOp.op \in {"register", "unregister"}

-----------------------------------------------------------------------------
\* Reference notions used by the dispatch properties.

\* The results the transport accepted from the tasks of the stream, in
\* order: what the dispatcher delivered, without the calls the caller made
\* to send_tool_result itself.
Delivered ==
    LET own == SelectSeq(sent, LAMBDA e : e.from = "task")
    IN [k \in 1..Len(own) |-> [invocation_id |-> own[k].invocation_id,
                               result |-> own[k].result]]

\* The consumer has the items the closure took from the parser, in order and
\* unchanged, all but the ToolCall whose task has just been spawned.
ForwardedSoFar ==
    /\ Len(forwarded) \in {pos - 1, pos}
    /\ forwarded = SubSeq(script, 1, Len(forwarded))
    /\ Len(forwarded) < pos => script[pos].kind = "ToolCall"

\* The stream can take its next step: run the closure or return the item.
StreamStep == StreamNext \/ StreamYieldToolCall

\* Results handed to send_tool_result (accepted or not) under an id.
HandedOver(id) ==
    Cardinality({k \in 1..Len(Delivered) : Delivered[k].invocation_id = id})
    + Cardinality({k \in 1..Len(logged) : logged[k] = id})

\* The task's result reached send_tool_result under the task's own id.
ResultHandedOver(t) ==
    \/ \E k \in 1..Len(Delivered) :
          Delivered[k] = [invocation_id |-> t.invocation_id, result |-> t.tool_result]
    \/ \E k \in 1..Len(logged) : logged[k] = t.invocation_id

\* History entries appended since the current turn's request was Delivered.
TurnEntries ==
    IF requests = <<>> THEN {}
    ELSE {j \in 1..Len(history) : j > Len(requests[Len(requests)])}

TurnDispatched == lpc = "sending" /\ tool_was_called

\* C6: within one turn no invocation id is used for more than one
\* Tool::call invocation.
C6_AtMostOncePerId ==
    \A i \in 1..Len(invoked), j \in 1..Len(invoked) :
        (invoked[i].invocation_id = invoked[j].invocation_id
         /\ invoked[i].turn = invoked[j].turn) => i = j

\* C7: every distinct tool call observed in a turn gets exactly one result:
\* in the conversation loop one ToolCallResult per collected call once the
\* turn has been dispatched, in chat_stream one result handed over per id
\* once all tasks are done.
C7_OneResultPerCall ==
    /\ TurnDispatched =>
          \A k \in 1..Len(message_tool_calls) :
              Cardinality({j \in TurnEntries :
                  /\ history[j].role = "tool"
                  /\ history[j].tool_call_id = message_tool_calls[k].id}) = 1
    /\ (streamEnded /\ \A i \in 1..Len(tasks) : tasks[i].pc = "done") =>
          \A i \in 1..Len(tasks) : HandedOver(tasks[i].invocation_id) = 1

\* C15: when a turn completes with collected calls, every collected call is
\* dispatched: behind the assistant message the history holds one ToolResult
\* per call, in call order, and each later request carries the history as
\* extended by the turn before it; with no collected call the loop finishes.
C15_TurnCompletion ==
    /\ TurnDispatched =>
          LET base == Len(requests[Len(requests)]) IN
          /\ Len(history) = base + 1 + Len(message_tool_calls)
          /\ \A k \in 1..Len(message_tool_calls) :
                base + 1 + k <= Len(history) =>
                    history[base + 1 + k] = DispatchCall(message_tool_calls[k]).msg
    /\ \A k \in 2..Len(requests) :
          /\ Len(requests[k]) >= Len(requests[k - 1]) + 2
          /\ SubSeq(requests[k], 1, Len(requests[k - 1])) = requests[k - 1]
    /\ (lpc = "finished" /\ requests # <<>>) =>
          Len(history) <= Len(requests[Len(requests)]) + 1

\* The last fragment received in the turn that carries the id.
LastFragmentOf(id) ==
    LET at == {k \in 1..Len(turn_fragments) : turn_fragments[k].id = id}
    IN turn_fragments[CHOOSE k \in at : \A m \in at : m <= k]

\* C23: when an id was seen several times within a turn, the call kept and
\* dispatched for it is the last occurrence: the collected call and the
\* ToolResult in the history are those of the final fragment's arguments.
C23_LastOccurrenceDispatched ==
    /\ \A k \in 1..Len(message_tool_calls) :
          message_tool_calls[k] = LastFragmentOf(message_tool_calls[k].id)
    /\ TurnDispatched =>
          \A j \in TurnEntries :
              history[j].role = "tool" =>
                  history[j] = DispatchCall(LastFragmentOf(history[j].tool_call_id)).msg

\* C25: the history is append-only: a step leaves the existing entries in
\* place and in order; it appends only when a turn completes on done, and
\* then the accumulated assistant message exactly once, before any
\* ToolResult of the turn.
C25_HistoryAppendOnly ==
    [][LET added == SubSeq(history', Len(history) + 1, Len(history'))
       IN /\ Len(history') >= Len(history)
          /\ SubSeq(history', 1, Len(history)) = history
          /\ added # <<>> =>
                /\ lpc = "draining" /\ lpc' \in {"sending", "finished"}
                /\ added[1] = AssistantMessage(assistant_buffer')
                /\ \A k \in 2..Len(added) : added[k].role = "tool"
          /\ (lpc = "draining" /\ lpc' = "sending") => added # <<>>
          /\ Cardinality({j \in 1..Len(history') : history'[j].role = "assistant"})
                <= Len(requests')]_vars

\* Two turns completed: each appended its assistant message once, the first
\* followed by a ToolResult, and the second request carried both.
C25_Witness ==
    /\ lpc = "finished"
    /\ Len(requests) = 2
    /\ Len(history) = 4
    /\ history[1].role = "user"
    /\ history[2].role = "assistant"
    /\ history[3].role = "tool"
    /\ history[4].role = "assistant"
    /\ requests[2] = SubSeq(history, 1, 3)

\* C29: the loop has no cap on rounds: a turn that completes with a
\* dispatched tool call always leads back to the top of the loop, whose next
\* step is the chat_stream call for a further request built from the whole
\* history (a failure of that call itself is returned as the error of main);
\* the loop finishes only at the end of a turn without a dispatched call.
C29_NoRoundCap ==
    [][/\ (lpc = "draining" /\ tool_was_called') => lpc' = "sending"
       /\ (lpc # "finished" /\ lpc' = "finished") =>
             (lpc = "draining" /\ ~tool_was_called')
       /\ (lpc = "sending" /\ lpc' # "sending") =>
             \/ lpc' = "draining" /\ requests' = Append(requests, history)
             \/ lpc' = "failed" /\ requests' = requests
       /\ lpc = "failed" => lpc' = "failed"]_vars

\* Every turn up to the bound of the model was dispatched, and the loop is
\* again at its top.
C29_Witness ==
    /\ lpc = "sending"
    /\ tool_was_called
    /\ Len(requests) >= 2
    /\ Len(history) = 1 + 2 * Len(requests)

\* C36: a turn whose stream ends without a done message stops the loop and
\* leaves no trace: the history is still the one the turn's request was
\* built from (no assistant text, no ToolResult) and no collected call was
\* dispatched; and an item drained without being a Message (a stream error,
\* an Error event, a Partial event) changes neither the history nor what the
\* turn has accumulated.  A step of a draining turn that consumes no item is
\* the end of the stream; one that consumes an item and leaves
\* assistant_buffer as it was consumed an item that is not a Message.
C36_NoCompletionNoEffect ==
    [][/\ (lpc = "draining" /\ turnEvents' = turnEvents) =>
             /\ lpc' = "finished"
             /\ history' = history
             /\ history' = requests[Len(requests)]
             /\ invoked' = invoked
             /\ \A m \in 1..Len(invoked') : invoked'[m].turn # Len(requests)
             /\ ~tool_was_called'
       /\ (lpc = "draining" /\ turnEvents' = turnEvents + 1
             /\ assistant_buffer' = assistant_buffer) =>
             /\ lpc' = "draining"
             /\ history' = history
             /\ invoked' = invoked
             /\ message_tool_calls' = message_tool_calls
             /\ seen_tool_call_ids' = seen_tool_call_ids
             /\ tool_was_called' = tool_was_called]_vars

\* The second turn collected a call and some text, drained an item that is
\* not a Message, and its stream ended before any done message: the loop
\* has stopped with the history of the second request.
C36_Witness ==
    /\ lpc = "finished"
    /\ Len(requests) = 2
    /\ message_tool_calls # <<>>
    /\ assistant_buffer # <<>>
    /\ turnEvents > Len(assistant_buffer)
    /\ history = requests[2]
    /\ Len(history) = 3
    /\ \A m \in 1..Len(invoked) : invoked[m].turn = 1

\* C35: tool resolution is by name only: once a turn has been dispatched,
\* every collected call whose function name is empty, with or without an
\* index, has the "tool not found" result in the history and caused no call
\* of a tool.
C35_EmptyNameNotFound ==
    TurnDispatched =>
        \A k \in 1..Len(message_tool_calls) :
            message_tool_calls[k].name = "" =>
                /\ \E j \in TurnEntries :
                      history[j] = ToolCallResultMessage("", <<"Tool not found", "">>,
                                                         message_tool_calls[k].id)
                /\ \A m \in 1..Len(invoked) :
                      ~(/\ invoked[m].turn = Len(requests)
                        /\ invoked[m].invocation_id = message_tool_calls[k].id)

\* What the call of a ToolCall event produces: the outcome of the tool its
\* name resolves to, on the event's own input.
ResultOfCall(ev) ==
    LET tool == get_tool(handles, arcs, StreamRegistry, ev.name) IN
    IF tool = NoTool THEN ErrorValue("not_found", ev.name)
    ELSE ToolOutcome(tool, ev.name, ev.input)

\* C16: with several calls of one stream in flight and finishing in any
\* order, every result the transport receives comes with the id of the call
\* that produced it, never with the id of another call.
C16_ResultUnderOwnId ==
    \A k \in 1..Len(Delivered) :
        /\ \E n \in 1..pos :
              /\ script[n].kind = "ToolCall"
              /\ script[n].invocation_id = Delivered[k].invocation_id
        /\ \A n \in 1..Len(script) :
              (script[n].kind = "ToolCall"
               /\ script[n].invocation_id = Delivered[k].invocation_id)
              => Delivered[k].result = ResultOfCall(script[n])

\* Two calls with different ids ran concurrently and the one spawned second
\* delivered first.
C16_Witness ==
    /\ Len(tasks) >= 2
    /\ Len(Delivered) >= 2
    /\ tasks[1].invocation_id # tasks[2].invocation_id
    /\ Delivered[1].invocation_id = tasks[2].invocation_id
    /\ Delivered[2].invocation_id = tasks[1].invocation_id
    /\ Delivered[2].result.kind = "result"

\* C24: for each dispatched call exactly one of success, tool error or
\* timeout determines the result, at the step that ends the race; from then
\* on the result never changes, whatever the abandoned work does later, and
\* every step hands over at most the one result of a task that was sending.
C24_OneOutcomePerCall ==
    [][/\ \A i \in 1..Len(tasks) :
             /\ (tasks[i].pc = "running" /\ tasks'[i].pc # "running") =>
                    /\ tasks'[i].pc = "sending"
                    /\ tasks'[i].tool_result \in
                          {ToolValue(tasks[i].tool, tasks[i].input),
                           ErrorValue("tool_error", tasks[i].tool),
                           ErrorValue("timed_out", tasks[i].name)}
                    /\ tasks'[i].work = "abandoned" <=>
                          tasks'[i].tool_result = ErrorValue("timed_out", tasks[i].name)
             /\ tasks[i].pc \in {"sending", "done"} =>
                    /\ tasks'[i].tool_result = tasks[i].tool_result
                    /\ tasks'[i].pc \in {"sending", "done"}
             /\ tasks[i].pc = "done" => tasks'[i].pc = "done"
       /\ Len(Delivered') + Len(logged') - Len(Delivered) - Len(logged)
             = Cardinality({i \in 1..Len(tasks) :
                              tasks[i].pc = "sending" /\ tasks'[i].pc = "done"})
       /\ SubSeq(Delivered', 1, Len(Delivered)) = Delivered
       /\ SubSeq(logged', 1, Len(logged)) = logged]_vars

\* The deadline fired first, the timeout result was handed over, and the
\* tool's work completed afterwards.
C24_Witness ==
    \E i \in 1..Len(tasks) :
        /\ tasks[i].pc = "done"
        /\ tasks[i].work = "ended"
        /\ tasks[i].tool_result = ErrorValue("timed_out", tasks[i].name)
        /\ HandedOver(tasks[i].invocation_id) = 1
        /\ \E k \in 1..Len(Delivered) :
              Delivered[k] = [invocation_id |-> tasks[i].invocation_id,
                         result |-> ErrorValue("timed_out", tasks[i].name)]

\* C31: a stream dispatches with the registry as it was when chat_stream was
\* called: whatever the caller registers or unregisters on the client
\* afterwards, every tool call of the stream resolves to what that registry
\* held for its name, and the stream's registry never changes.
C31_RegistrySnapshot ==
    /\ ViewOf(handles, arcs, StreamRegistry) = RegisteredAtCall
    /\ \A i \in 1..Len(tasks) :
          tasks[i].pc # "spawned" =>
              /\ tasks[i].tool = RegisteredAtCall[tasks[i].name]
              /\ RegisteredAtCall[tasks[i].name] = NoTool =>
                    tasks[i].tool_result = ErrorValue("not_found", tasks[i].name)

\* When the lookups were made the client no longer had the tool the first
\* call resolved to, and had the tool the second call did not find.
C31_Witness ==
    /\ \E i \in 1..Len(tasks) :
          /\ tasks[i].pc = "done"
          /\ tasks[i].tool = "search"
          /\ tasks[i].live # "search"
    /\ \E i \in 1..Len(tasks) :
          /\ tasks[i].pc = "done"
          /\ tasks[i].tool = NoTool
          /\ tasks[i].live = "failing_tool"

\* C32: chat_stream is a transparent pass-through: the items handed to the
\* consumer are the parser's items, each once, unchanged and in order, the
\* ToolCall events and the errors included, up to the end of the parser's
\* sequence; and the next item can always be forwarded, whatever the spawned
\* tasks are doing.
C32_TransparentPassThrough ==
    /\ Len(forwarded) <= Len(script)
    /\ \A k \in 1..Len(forwarded) : forwarded[k] = script[k]
    /\ streamEnded => Len(forwarded) = Len(script)
    /\ Len(tasks) = CallCount(SubSeq(script, 1, pos))
    /\ Len(tasks) \in {CallCount(forwarded), CallCount(forwarded) + 1}
    /\ ~streamEnded => ENABLED StreamStep

\* The stream reached its end, behind a ToolCall and an error item, while
\* the tool of the call was still running.
C32_Witness ==
    /\ streamEnded
    /\ Len(forwarded) = 2
    /\ forwarded[1].kind = "ToolCall"
    /\ forwarded[2].kind = "StreamError"
    /\ Len(tasks) = 1
    /\ tasks[1].pc = "running"

\* C33: the cancellation token handed to a tool is created for that call
\* alone, and the dispatcher never signals it: not while the tool runs, not
\* when the deadline has expired, not after the result was handed over.
C33_FreshTokenNeverSignalled ==
    /\ \A i \in 1..Len(tasks) :
          /\ ~tasks[i].cancelled
          /\ \A j \in 1..Len(tasks) : tasks[i].token = tasks[j].token => i = j
    /\ \A k \in 1..Len(invoked) :
          /\ ~invoked[k].cancelled
          /\ \A m \in 1..Len(invoked) : invoked[k].token = invoked[m].token => k = m
          /\ \E i \in 1..Len(tasks) :
                /\ tasks[i].token = invoked[k].token
                /\ tasks[i].invocation_id = invoked[k].invocation_id

\* Two tools were called; the deadline of one expired, its timeout result
\* was handed over and its abandoned work went on.
C33_Witness ==
    /\ Len(invoked) = 2
    /\ \E i \in 1..Len(tasks) :
          /\ tasks[i].pc = "done"
          /\ tasks[i].work \in {"abandoned", "ended"}
          /\ tasks[i].tool_result = ErrorValue("timed_out", tasks[i].name)
          /\ ~tasks[i].cancelled

\* C34: a failed delivery of a tool result is only logged: the step that
\* fails ends the task, touches neither the stream nor the delivered
\* results, a task that is done never delivers again, and the stream still
\* forwards every remaining item.
C34_SendFailureOnlyLogged ==
    [][/\ Len(logged') > Len(logged) =>
             /\ \E i \in 1..Len(tasks) :
                   /\ tasks[i].pc = "sending"
                   /\ tasks' = [tasks EXCEPT ![i].pc = "done"]
                   /\ logged' = Append(logged, tasks[i].invocation_id)
             /\ UNCHANGED <<Delivered, forwarded, pos, streamEnded, script>>
       /\ \A i \in 1..Len(tasks) :
             tasks[i].pc = "done" =>
                 /\ tasks'[i].pc = "done"
                 /\ tasks'[i].tool_result = tasks[i].tool_result
       /\ Len(Delivered') + Len(logged')
             = Cardinality({i \in 1..Len(tasks') : tasks'[i].pc = "done"})
       /\ logged # <<>> =>
             /\ ~streamEnded => ENABLED StreamStep
             /\ forwarded' \in {forwarded} \cup
                   {Append(forwarded, script[k]) :
                       k \in {Len(forwarded) + 1} \cap 1..Len(script)}
             /\ streamEnded' => forwarded' = script]_vars

\* The delivery for the first item's call failed; the stream went on to
\* forward the item behind it and ended, and nothing was delivered.
C34_Witness ==
    /\ streamEnded
    /\ Len(forwarded) = 2
    /\ forwarded[1].kind = "ToolCall"
    /\ forwarded[2].kind = "Done"
    /\ logged = <<forwarded[1].invocation_id>>
    /\ Delivered = <<>>
    /\ \A i \in 1..Len(tasks) : tasks[i].pc = "done"

\* C8: a call whose tool runs past max_tool_runtime gets the failure-shaped
\* "timed out" result, handed over under its own id, and the stream keeps
\* forwarding: nothing is lost or injected and the stream ends only after
\* the last item.
C8_TimeoutBecomesResult ==
    /\ \A i \in 1..Len(tasks) :
          (Behaviour(tasks[i].tool) = "slow" /\ tasks[i].tool # NoTool) =>
              /\ tasks[i].pc \in {"sending", "done"} =>
                    tasks[i].tool_result = ErrorValue("timed_out", tasks[i].name)
              /\ tasks[i].pc = "done" => ResultHandedOver(tasks[i])
    /\ (\E i \in 1..Len(tasks) : tasks[i].tool_result = ErrorValue("timed_out", tasks[i].name))
          => /\ ForwardedSoFar
             /\ streamEnded => forwarded = script

C8_Witness ==
    /\ streamEnded
    /\ \E i \in 1..Len(tasks) :
          /\ tasks[i].pc = "done"
          /\ tasks[i].tool = "slow_tool"
          /\ \E k \in 1..Len(Delivered) :
                Delivered[k] = [invocation_id |-> "inv-3",
                           result |-> ErrorValue("timed_out", "slow_tool")]
    /\ Len(forwarded) >= 2
    /\ forwarded[1].kind = "ToolCall"

\* C9: a call whose name resolves to no tool gets the synthesized "not found"
\* result under its id and causes no Tool::call invocation: in chat_stream
\* for every task past its lookup, in the conversation loop for every call
\* collected in a turn that has been dispatched.
C9_MissingToolResult ==
    /\ \A i \in 1..Len(tasks) :
          (get_tool(handles, arcs, StreamRegistry, tasks[i].name) = NoTool
           /\ tasks[i].pc # "spawned") =>
              /\ tasks[i].tool_result = ErrorValue("not_found", tasks[i].name)
              /\ ~\E k \in 1..Len(invoked) :
                     invoked[k].invocation_id = tasks[i].invocation_id
              /\ tasks[i].pc = "done" => ResultHandedOver(tasks[i])
    /\ TurnDispatched =>
          \A c \in 1..Len(message_tool_calls) :
              LET call == message_tool_calls[c] IN
              ~ToolMapHas(call.name) =>
                  /\ \E j \in TurnEntries : history[j] =
                        ToolCallResultMessage(call.name, <<"Tool not found", call.name>>, call.id)
                  /\ ~\E k \in 1..Len(invoked) :
                         invoked[k].invocation_id = call.id /\ invoked[k].turn = Len(requests)

\* C10: a tool that returns an error never ends the stream: its error is
\* captured into the result handed over under the call's id, and every item
\* of the stream, also those after the call, is yielded before the end.
C10_ToolErrorCaptured ==
    /\ \A i \in 1..Len(tasks) :
          (tasks[i].tool # NoTool /\ Behaviour(tasks[i].tool) = "err") =>
              /\ tasks[i].pc \in {"sending", "done"} =>
                    tasks[i].tool_result = ErrorValue("tool_error", tasks[i].tool)
              /\ tasks[i].pc = "done" => ResultHandedOver(tasks[i])
    /\ ForwardedSoFar
    /\ streamEnded => forwarded = script

C10_Witness ==
    /\ streamEnded
    /\ \E k \in 1..Len(Delivered) :
          Delivered[k] = [invocation_id |-> "inv-2",
                     result |-> ErrorValue("tool_error", "failing_tool")]
    /\ Len(forwarded) = 2
    /\ forwarded[1].kind = "ToolCall"
    /\ forwarded[1].name = "failing_tool"
    /\ forwarded[2].kind = "Done"

====
